---- MODULE Spec2Model ----
(***************************************************************************)
(* A model of the execution core of SnCode (src/main/agent.ts,             *)
(* src/main/project-tools.ts and the message:send handler of the main      *)
(* process): the streaming agent loop in its Anthropic and OpenAI          *)
(* variants, the tool dispatcher, the sub-agent scheduler with its         *)
(* cooperative cancellation, and the path confinement of the file tools.   *)
(*                                                                         *)
(* Scheduling follows the JavaScript event loop.  A state of the model is  *)
(* a point where the main loop is either suspended at an await or about    *)
(* to run one more synchronous piece of the continuation it is in.  While  *)
(* a continuation of the main loop is runnable (Ready) no other event is   *)
(* delivered: neither run:cancel nor an I/O completion of a sub-agent.     *)
(* A sub-agent continuation runs as one action, from the completion that   *)
(* wakes it up to its next await.                                          *)
(***************************************************************************)
EXTENDS Integers, Sequences, FiniteSets, TLC

(***************************************************************************)
(* Bounds of the model.                                                    *)
(***************************************************************************)
\* the most tool calls one response of the provider carries
MaxCalls == 3
\* settings.maxToolSteps of the modelled run
MaxToolStepsSetting == 2
\* settings.subAgentMaxToolSteps of the modelled run
SubMaxToolStepsSetting == 2
\* settings.maxConcurrentTasks ranges over 0 (unset) .. MaxConcSetting
MaxConcSetting == 2
\* the most segments a relative path given to a file tool has
MaxSegs == 3
\* the responses of a scripted provider, and the most tool calls of each
ScriptSteps == 2
ScriptCalls == 2
\* settings.maxToolSteps / subAgentMaxToolSteps of a counted loop range over
\* 0 (unset) .. MaxBudgetSetting
MaxBudgetSetting == 3
\* the most requests one tool-provider client sends
MaxRequests == 4
\* the most tool calls a response to a sub-agent carries, and the
\* subAgentMaxToolSteps of the sub-agent looked at on its own
SubCalls == 2
SubBudget == 2
\* the most characters of the file edit_file is given, and of its
\* old_string and new_string
MaxContent == 3
MaxEditString == 2
\* how long one run_command call is followed, and the most the clock moves
\* in one step, in milliseconds
CmdHorizonMs == 94000
CmdTickMs == 2000
\* glob and grep: how far the number of matching entries goes beyond the
\* cap, and the most entries that do not match
ExtraEntries == 2
MaxOtherEntries == 2
\* OAuth: how far, in milliseconds, the clock and the expiry of the stored
\* token go around the margin, and the requests of the run that follows
OAuthSlackMs == 2
MaxOAuthSteps == 2
\* token usage: the largest count an event reports, the message_delta
\* events of one stream, the steps of the run
MaxTokens == 2
MaxDeltas == 2
MaxUsageSteps == 2
\* the messages that the callbacks of one run store in the thread
MaxThread == 3
\* the runs that one thread starts
MaxRuns == 3
\* the credential resolutions that run at the same time
MaxResolvers == 3
\* the clients that McpManager makes
MaxClients == 3
\* files: the code units of a content, the segments of the path written,
\* the writes to it
MaxUnits == 2
MaxFileSegs == 2
MaxWrites == 2

(***************************************************************************)
(* Program constants.                                                      *)
(***************************************************************************)
DefaultMaxConcurrentTasks == 3
DEFAULT_MAX_TOOL_STEPS == 25
DEFAULT_MAX_TOKENS == 16384
DefaultSubAgentMaxToolSteps == 15
DefaultTimeoutMs == 90000
KillGraceMs == 2000
MAX_GLOB_RESULTS == 500
MAX_GREP_MATCHES == 200
OAuthMarginMs == 30000
DefaultExpiresInS == 3600
MAX_FILE_BYTES == 300000

VARIABLES
    variant,      \* provider.id: which of the two loops runAgent dispatches to
    conc,         \* settings.maxConcurrentTasks, 0 when unset
    aborted,      \* input.abortSignal.aborted
    pc,           \* position of the main loop
    step,         \* loop variable step
    stepText,     \* stepText: the text accumulated in the current step
    calls,        \* toolUseBlocks / parsedToolCalls of the current step
    pos,          \* position in sequentialTools / spawnTasks being processed
    batch,        \* loop variable batch
    results,      \* resultsByIndex (by index) / toolResultsMap (by id)
    pendingIds,   \* pendingIds of the spawn_task cards
    toolCards,    \* per call of the step: the tool message made by onToolStart
    tasks,        \* per call of the step: the sub-agent run of a spawn_task
    messages,     \* the conversation: what was pushed since the request before last
    status,       \* last agent:status emitted for the thread
    outcome,      \* how runAgent settled
    ev,           \* what the last action did that an observer can see
    answers,      \* the texts a response of the provider can carry in this run
    toolset,      \* the tool names a response of the provider can call in this run
    xcall,        \* one call of executeTool, from its arguments to its outcome
    fsop,         \* one call of a file tool on a project root
    budget,       \* one loop, main or sub-agent, counted by its steps and requests
    duo,          \* one scripted run, made by runAnthropicAgent and by runOpenAIAgent
    mcp,          \* one McpClient: its fields, its requests and its subprocess
    sub,          \* one sub-agent run: its catalogue and the callees its tool calls reach
    ed,           \* one file edited twice by editFile with the same arguments
    cmd,          \* one run_command call: its child process, its timers and its outcome
    srch,         \* one call of glob or grep: the entries, the matches kept and the result
    oa,           \* the start of one run: provider, credential, OAuth token, first requests
    us,           \* the token counters of one Anthropic run
    hd,           \* the handler of message:send around one run: thread, events, status
    fl,           \* one path written by writeTextFile and read by readTextFile
    mdl,          \* the model chosen for a thread title from the authorized providers
    rc,           \* the runs of one thread and its entry of runControllers
    rf,           \* the credential resolutions of one provider that run at the same time
    mg,           \* McpManager: its clients, their subprocesses and the map of the server ids
    th            \* settings and Anthropic request parameters

agentVars == <<variant, conc, aborted, pc, step, stepText, calls, pos, batch, results,
               pendingIds, toolCards, tasks, messages, status, outcome, ev>>

\* what the provider of the run can answer: fixed when the run starts
providerVars == <<answers, toolset>>

nonAgentVars == <<providerVars, xcall, fsop, budget, duo, mcp, sub, ed, cmd, srch, oa, us, hd, fl, mdl, rc, rf, mg, th>>

vars == <<agentVars, nonAgentVars>>

(***************************************************************************)
(* Texts.  A text is a sequence of fragments, so that "Tool error: " + msg *)
(* is a text again.                                                        *)
(***************************************************************************)
RunCancelledMsg == <<"Run cancelled">>
SdkAbortMsg == <<"Request was aborted.">>
Return(t) == [kind |-> "return", msg |-> t]
Throw(m) == [kind |-> "throw", msg |-> m]
NoOutcome == [kind |-> "none", msg |-> <<>>]

(***************************************************************************)
(* executeTool.                                                            *)
(***************************************************************************)
FileTools == {"list_files", "read_file", "write_file", "edit_file", "glob", "grep"}
KnownTools == FileTools \cup {"run_command", "load_skill", "spawn_task"}

\* The try block: `inner` is how the operation the branch calls settled
\* (the file tool, runCommand, loadSkillContent or runSubAgent).
ToolBody(isAborted, name, args, hasCtx, inner) ==
    IF isAborted THEN Throw(RunCancelledMsg)
    ELSE IF name \in FileTools \cup {"run_command"} THEN inner
    ELSE IF name = "load_skill" THEN
        IF ~args.skill_id THEN Return(<<"Error: skill_id is required">>)
        ELSE inner
    ELSE IF name = "spawn_task" THEN
        IF ~hasCtx THEN Return(<<"Error: Sub-agent context not available.">>)
        ELSE IF ~args.prompt THEN Return(<<"Error: prompt is required">>)
        ELSE inner
    ELSE Return(<<"Unknown tool: ", name>>)

\* a catch block that lets every error leave
CatchAllRethrow(o) == o

\* The catch block: only an error whose message is "Run cancelled" leaves.
CatchBlock(o) ==
    IF o.kind = "throw" /\ o.msg # RunCancelledMsg
    THEN Return(<<"Tool error: ">> \o o.msg)
    ELSE o

ExecuteTool(isAborted, name, args, hasCtx, inner) ==
    CatchBlock(ToolBody(isAborted, name, args, hasCtx, inner))

GoodArgs == [skill_id |-> TRUE, prompt |-> TRUE]

(***************************************************************************)
(* The agent loop.                                                         *)
(***************************************************************************)
Variants == {"anthropic", "openai"}
\* the tool names the modelled provider issues
ToolNames == {"read_file", "run_command", "spawn_task"}

RECURSIVE SeqsUpTo(_, _)
SeqsUpTo(S, n) ==
    IF n = 0 THEN {<<>>}
    ELSE LET shorter == SeqsUpTo(S, n - 1)
         IN  shorter \cup {Append(s, x) : s \in {t \in shorter : Len(t) = n - 1}, x \in S}

CallNameSeqs == SeqsUpTo(ToolNames, MaxCalls)
\* the tool calls a response of this run's provider can carry
ResponseCalls == {ns \in CallNameSeqs : \A k \in 1..Len(ns) : ns[k] \in toolset}

\* input.settings.maxToolSteps || DEFAULT_MAX_TOOL_STEPS, 0 standing for unset
MaxToolStepsOf(setting) == IF setting = 0 THEN DEFAULT_MAX_TOOL_STEPS ELSE setting
\* ctx.settings.subAgentMaxToolSteps || 15
SubMaxToolStepsOf(setting) == IF setting = 0 THEN DefaultSubAgentMaxToolSteps ELSE setting

maxToolSteps == MaxToolStepsOf(MaxToolStepsSetting)
subMaxToolSteps == SubMaxToolStepsOf(SubMaxToolStepsSetting)
maxConcurrent == IF conc = 0 THEN DefaultMaxConcurrentTasks ELSE conc

\* The provider's ids: unique over the run, and not in the order of the calls.
IdOf(s, n, i) == s * (MaxCalls + 1) + (n + 1 - i)
MkCalls(names) ==
    [i \in 1..Len(names) |-> [id |-> IdOf(step, Len(names), i), name |-> names[i]]]

IsSpawn(i) == calls[i].name = "spawn_task"
RECURSIVE Filter(_, _, _)
Filter(cs, i, wantSpawn) ==
    IF i > Len(cs) THEN <<>>
    ELSE IF (cs[i].name = "spawn_task") = wantSpawn
         THEN <<i>> \o Filter(cs, i + 1, wantSpawn)
         ELSE Filter(cs, i + 1, wantSpawn)
\* the sequential calls taken from the last one to the first
sequentialToolsReversed ==
    LET fwd == Filter(calls, 1, FALSE) IN
    [k \in 1..Len(fwd) |-> fwd[Len(fwd) + 1 - k]]
\* indices of the calls, in call order
sequentialTools == Filter(calls, 1, FALSE)
spawnTasks == Filter(calls, 1, TRUE)

\* resultsByIndex is keyed by the index, toolResultsMap by the id
KeyOf(i) == IF variant = "anthropic" THEN i ELSE calls[i].id

NoTask == [st |-> "none", sstep |-> 0]
Running(t) == t.st \in {"cred", "req", "cmd", "cmdAborted"}
Settled(t) == t.st \in {"fulfilled", "rejected"}

\* spawnTasks.slice(from, to)
SliceIdx(s, from, to) == {s[k] : k \in {j \in 1..Len(s) : j > from /\ j <= to}}
\* a slice without its upper end: every remaining task at once
batchItemsUnbounded == SliceIdx(spawnTasks, batch, Len(spawnTasks))

batchItems == SliceIdx(spawnTasks, batch, batch + maxConcurrent)

\* the batch awaited with Promise.race: runnable once any task has settled
ReadyOnFirstSettled ==
    \/ pc \in {"loop", "seq", "cards", "launch", "collect", "seqCmdAborted"}
    \/ /\ pc = "batchWait"
       /\ \E i \in batchItems : Settled(tasks[i])

\* A continuation of the main loop is runnable: Promise.all settles with the
\* first rejection, or when every promise of the batch is fulfilled.
Ready ==
    \/ pc \in {"loop", "seq", "cards", "launch", "collect", "seqCmdAborted"}
    \/ /\ pc = "batchWait"
       /\ \/ \E i \in batchItems : tasks[i].st = "rejected"
          \/ \A i \in batchItems : tasks[i].st = "fulfilled"
\* A continuation of a sub-agent is runnable.
SubReady == \E i \in DOMAIN tasks : tasks[i].st = "cmdAborted"

Quiet == ~Ready /\ ~SubReady

\* what a response can carry as text: nothing, white space only, or words
StepTexts == {<<>>, <<" ">>, <<"hello">>}
\* stepText.trim() is not empty
NonBlank(t) == t # <<>> /\ t # <<" ">>
MaxStepsMsg == <<"Reached maximum tool steps. Please continue with a follow-up message.">>
\* finalText once the loop is left by its budget: on the last step it was set
\* to stepText || "Reached maximum tool steps. ..."
finalText == IF stepText # <<>> THEN stepText ELSE MaxStepsMsg

UserMsg == [role |-> "user", ids |-> <<>>, results |-> <<>>]

InitAgent ==
    /\ variant \in Variants
    /\ conc \in 0..MaxConcSetting
    /\ aborted = FALSE
    /\ pc = "getCredential"
    /\ step = 0
    /\ stepText = <<>>
    /\ calls = <<>>
    /\ pos = 0
    /\ batch = 0
    /\ results = <<>>
    /\ pendingIds = <<>>
    /\ toolCards = <<>>
    /\ tasks = <<>>
    /\ messages = <<UserMsg>>
    /\ status = "running"
    /\ outcome = NoOutcome
    /\ ev = {}

\* runAgent settles; the handler of message:send emits the terminal status.
Finish(o) ==
    /\ pc' = "done"
    /\ outcome' = o
    /\ status' = IF o.kind = "return" THEN "idle"
                 ELSE IF o.msg = RunCancelledMsg THEN "cancelled" ELSE "error"


\* an observable event of the last action: a callback, the start of a tool
\* execution, a provider request, or executeTool settling with `text`
Ev(e, who, i) == [e |-> e, who |-> who, i |-> i, text |-> <<>>]
EvText(e, text) == [e |-> e, who |-> "main", i |-> 0, text |-> text]
EvSettle(o, who, i) == [e |-> o.kind, who |-> who, i |-> i, text |-> o.msg]

\* The text of a result is kept as the id of the call whose execution
\* produced it.
\* resultsByIndex[index] = {toolUseId, content} / toolResultsMap.set(tc.id, result)
StoreResult(i) ==
    (KeyOf(i) :> [toolUseId |-> calls[i].id, content |-> calls[i].id]) @@ results

\* where the main loop goes once sequential tool number p - 1 is done
AfterSeq(cs, p) ==
    IF p <= Len(Filter(cs, 1, FALSE)) THEN "seq"
    ELSE IF Len(Filter(cs, 1, TRUE)) > 0 THEN "cards" ELSE "collect"

\* runAgent: provider lookup and await getCredential
GotCredential ==
    /\ pc = "getCredential"
    /\ \/ /\ Finish(Return(<<"credential is not configured">>))
       \/ /\ pc' = "loop"
          /\ UNCHANGED <<outcome, status>>
    /\ ev' = {}
    /\ UNCHANGED <<stepText, nonAgentVars>>
    /\ UNCHANGED <<variant, conc, aborted, step, calls, pos, batch, results,
                   pendingIds, toolCards, tasks, messages>>

\* top of the for loop: the step budget, the abort check, the request
LoopTop ==
    /\ pc = "loop"
    /\ IF step >= maxToolSteps
       THEN Finish(Return(finalText)) /\ ev' = {} /\ UNCHANGED stepText
       ELSE IF aborted
       THEN Finish(Throw(RunCancelledMsg)) /\ ev' = {} /\ UNCHANGED stepText
       ELSE /\ pc' = "stream"
            /\ stepText' = <<>>
            /\ ev' = {Ev("request", "main", 0)}
            /\ UNCHANGED <<outcome, status>>
    /\ UNCHANGED nonAgentVars
    /\ UNCHANGED <<variant, conc, aborted, step, calls, pos, batch, results,
                   pendingIds, toolCards, tasks, messages>>

\* the assistant message is pushed without the intermediate text being emitted
StepWithToolsSilent(names, text) ==
    LET cs == MkCalls(names) IN
    /\ calls' = cs
    /\ ev' = {}
    /\ messages' = <<[role |-> "assistant",
                      ids |-> [i \in 1..Len(cs) |-> cs[i].id],
                      results |-> <<>>]>>
    /\ results' = <<>>
    /\ pendingIds' = <<>>
    /\ toolCards' = [i \in 1..Len(cs) |-> "none"]
    /\ tasks' = [i \in 1..Len(cs) |-> NoTask]
    /\ pos' = 1
    /\ batch' = 0
    /\ pc' = AfterSeq(cs, 1)
    /\ UNCHANGED <<outcome, status>>

\* a response with tool calls: onText for the narration, the assistant
\* message, the partition of the calls
StepWithTools(names, text) ==
    LET cs == MkCalls(names) IN
    /\ calls' = cs
    /\ ev' = IF NonBlank(text) THEN {EvText("onText", text)} ELSE {}
    /\ messages' = <<[role |-> "assistant",
                      ids |-> [i \in 1..Len(cs) |-> cs[i].id],
                      results |-> <<>>]>>
    /\ results' = <<>>
    /\ pendingIds' = <<>>
    /\ toolCards' = [i \in 1..Len(cs) |-> "none"]
    /\ tasks' = [i \in 1..Len(cs) |-> NoTask]
    /\ pos' = 1
    /\ batch' = 0
    /\ pc' = AfterSeq(cs, 1)
    /\ UNCHANGED <<outcome, status>>

\* finalText is returned without having been set from the text of the step
StepResponseLosesText(names, text) ==
    /\ stepText' = text
    /\ IF Len(names) = 0
       THEN /\ Finish(Return(<<>>))
            /\ calls' = <<>>
            /\ results' = <<>>
            /\ pendingIds' = <<>>
            /\ toolCards' = <<>>
            /\ tasks' = <<>>
            /\ ev' = {}
            /\ UNCHANGED <<pos, batch, messages>>
       ELSE StepWithTools(names, text)

\* after the for-await loop: no tool calls is the final answer, otherwise the
\* assistant message is pushed and the calls are partitioned
StepResponse(names, text) ==
    /\ stepText' = text
    /\ IF Len(names) = 0
       THEN /\ Finish(Return(text))
            /\ calls' = <<>>
            /\ results' = <<>>
            /\ pendingIds' = <<>>
            /\ toolCards' = <<>>
            /\ tasks' = <<>>
            /\ ev' = {}
            /\ UNCHANGED <<pos, batch, messages>>
       ELSE StepWithTools(names, text)

\* the stream ends while the run is not cancelled
StreamComplete ==
    /\ pc = "stream"
    /\ ~aborted
    /\ Quiet
    /\ \E names \in ResponseCalls, text \in answers : StepResponse(names, text)
    /\ UNCHANGED nonAgentVars
    /\ UNCHANGED <<variant, conc, aborted, step>>

\* a transport error of the provider call leaves the loop as it is
StreamTransportError ==
    /\ pc = "stream"
    /\ ~aborted
    /\ Quiet
    /\ Finish(Throw(<<"transport error">>))
    /\ ev' = {}
    /\ UNCHANGED <<stepText, nonAgentVars>>
    /\ UNCHANGED <<variant, conc, aborted, step, calls, pos, batch, results,
                   pendingIds, toolCards, tasks, messages>>

\* The signal is handed to the SDK ({ signal: input.abortSignal }).  Raised
\* while the request is in flight, the SDK settles the call with its own
\* abort error, whose message is not "Run cancelled".
StreamAbortError ==
    /\ pc = "stream"
    /\ aborted
    /\ Quiet
    /\ Finish(Throw(SdkAbortMsg))
    /\ ev' = {}
    /\ UNCHANGED <<stepText, nonAgentVars>>
    /\ UNCHANGED <<variant, conc, aborted, step, calls, pos, batch, results,
                   pendingIds, toolCards, tasks, messages>>

\* an event is still delivered after the signal was raised: the check at the
\* top of the for-await body throws
StreamEventAfterAbort ==
    /\ pc = "stream"
    /\ aborted
    /\ Quiet
    /\ Finish(Throw(RunCancelledMsg))
    /\ ev' = {}
    /\ UNCHANGED <<stepText, nonAgentVars>>
    /\ UNCHANGED <<variant, conc, aborted, step, calls, pos, batch, results,
                   pendingIds, toolCards, tasks, messages>>

\* The OpenAI SDK's stream iterator ends without throwing when its request
\* is aborted: the for-await loop is left with what was accumulated so far.
StreamEndsOnAbort ==
    /\ pc = "stream"
    /\ aborted
    /\ variant = "openai"
    /\ Quiet
    /\ \E names \in ResponseCalls, text \in answers : StepResponse(names, text)
    /\ UNCHANGED nonAgentVars
    /\ UNCHANGED <<variant, conc, aborted, step>>

\* how a file tool / a shell command settles
FileOutcomes == {Return(<<"file text">>), Throw(<<"ENOENT">>)}
CommandOutcomes == {Return(<<"stdout">>), Throw(<<"Command timed out">>)}

\* one iteration of `for (const { tool, index } of sequentialTools)`, up to
\* its await
SeqTool ==
    /\ pc = "seq"
    /\ LET i == sequentialTools[pos] IN
       IF aborted
       THEN /\ Finish(Throw(RunCancelledMsg))
            /\ ev' = {}
            /\ UNCHANGED <<pos, results, toolCards>>
       ELSE IF calls[i].name = "run_command"
       THEN /\ toolCards' = [toolCards EXCEPT ![i] = "pending"]
            /\ pc' = "seqCmd"
            /\ ev' = {Ev("onToolStart", "main", i), Ev("exec", "main", i)}
            /\ UNCHANGED <<pos, results, outcome, status>>
       ELSE \E inner \in FileOutcomes :
            LET o == ExecuteTool(aborted, calls[i].name, GoodArgs, TRUE, inner) IN
            /\ toolCards' = [toolCards EXCEPT ![i] = "done"]
            /\ results' = StoreResult(i)
            /\ pos' = IF AfterSeq(calls, pos + 1) = "seq" THEN pos + 1 ELSE 1
            /\ pc' = AfterSeq(calls, pos + 1)
            /\ ev' = {Ev("onToolStart", "main", i), Ev("exec", "main", i),
                      EvSettle(o, "main", i), Ev("onToolEnd", "main", i)}
            /\ UNCHANGED <<outcome, status>>
    /\ UNCHANGED <<stepText, nonAgentVars>>
    /\ UNCHANGED <<variant, conc, aborted, step, calls, batch, pendingIds, tasks, messages>>

\* runCommand of a sequential tool settles: close, timeout, or the abort
\* listener; the rest of the iteration follows
SeqCmdSettled ==
    /\ pc \in {"seqCmd", "seqCmdAborted"}
    /\ ~SubReady
    /\ LET i == sequentialTools[pos] IN
       \E inner \in (IF pc = "seqCmdAborted" THEN {Throw(RunCancelledMsg)} ELSE CommandOutcomes) :
       LET o == ExecuteTool(FALSE, "run_command", GoodArgs, TRUE, inner) IN
       IF o.kind = "throw"
       THEN /\ Finish(o)
            /\ ev' = {EvSettle(o, "main", i)}
            /\ UNCHANGED <<pos, results, toolCards>>
       ELSE /\ toolCards' = [toolCards EXCEPT ![i] = "done"]
            /\ results' = StoreResult(i)
            /\ pos' = IF AfterSeq(calls, pos + 1) = "seq" THEN pos + 1 ELSE 1
            /\ pc' = AfterSeq(calls, pos + 1)
            /\ ev' = {EvSettle(o, "main", i), Ev("onToolEnd", "main", i)}
            /\ UNCHANGED <<outcome, status>>
    /\ UNCHANGED <<stepText, nonAgentVars>>
    /\ UNCHANGED <<variant, conc, aborted, step, calls, batch, pendingIds, tasks, messages>>

\* the loop left after its first card, the ids of the other cards allocated
\* but not emitted
EmitFirstCardOnly ==
    /\ pc = "cards"
    /\ toolCards' = [toolCards EXCEPT ![spawnTasks[pos]] = "pending"]
    /\ pendingIds' = [k \in {KeyOf(i) : i \in {j \in DOMAIN calls : IsSpawn(j)}} |->
                         CHOOSE i \in DOMAIN calls : KeyOf(i) = k]
    /\ ev' = {Ev("onToolStart", "main", spawnTasks[pos])}
    /\ pc' = "launch" /\ pos' = 1
    /\ UNCHANGED <<stepText, nonAgentVars>>
    /\ UNCHANGED <<variant, conc, aborted, step, calls, batch, results, tasks,
                   messages, status, outcome>>

\* "Emit all pending cards first": one iteration
EmitCard ==
    /\ pc = "cards"
    /\ LET i == spawnTasks[pos] IN
       /\ toolCards' = [toolCards EXCEPT ![i] = "pending"]
       /\ pendingIds' = (KeyOf(i) :> i) @@ pendingIds
       /\ ev' = {Ev("onToolStart", "main", i)}
    /\ IF pos = Len(spawnTasks)
       THEN pc' = "launch" /\ pos' = 1
       ELSE pc' = "cards" /\ pos' = pos + 1
    /\ UNCHANGED <<stepText, nonAgentVars>>
    /\ UNCHANGED <<variant, conc, aborted, step, calls, batch, results, tasks,
                   messages, status, outcome>>

\* batchItems.map(async ...): every callback runs to its first await, which
\* is executeTool's entry check followed by runSubAgent's await getCredential
LaunchBatch ==
    /\ pc = "launch"
    /\ LET entry == ExecuteTool(aborted, "spawn_task", GoodArgs, TRUE, NoOutcome) IN
       /\ tasks' = [i \in DOMAIN tasks |->
                      IF i \in batchItems
                      THEN IF entry.kind = "throw"
                           THEN [st |-> "rejected", sstep |-> 0]
                           ELSE [st |-> "cred", sstep |-> 0]
                      ELSE tasks[i]]
       /\ ev' = IF entry.kind = "throw"
                THEN {EvSettle(entry, "main", i) : i \in batchItems}
                ELSE {Ev("exec", "main", i) : i \in batchItems}
    /\ pc' = "batchWait"
    /\ UNCHANGED <<stepText, nonAgentVars>>
    /\ UNCHANGED <<variant, conc, aborted, step, calls, pos, batch, results,
                   pendingIds, toolCards, messages, status, outcome>>

\* await Promise.all(batchPromises) settles
BatchSettled ==
    /\ pc = "batchWait"
    /\ Ready
    /\ IF \E i \in batchItems : tasks[i].st = "rejected"
       THEN /\ Finish(Throw(RunCancelledMsg))
            /\ UNCHANGED batch
       ELSE /\ batch' = batch + maxConcurrent
            /\ pc' = IF batch + maxConcurrent < Len(spawnTasks) THEN "launch" ELSE "collect"
            /\ UNCHANGED <<outcome, status>>
    /\ ev' = {}
    /\ UNCHANGED <<stepText, nonAgentVars>>
    /\ UNCHANGED <<variant, conc, aborted, step, calls, pos, results,
                   pendingIds, toolCards, tasks, messages>>

\* toolResultsMap.get(tc.id) || ""
NoContent == 0

\* results built from the sequential tools only
AnthropicSequentialResultsOnly ==
    <<[role |-> "user", ids |-> <<>>,
       results |-> [k \in 1..Len(sequentialTools) |->
                      [tool_use_id |-> results[sequentialTools[k]].toolUseId,
                       content |-> results[sequentialTools[k]].content]]]>>

\* the tool results of the step, as the Anthropic loop appends them to the
\* conversation: resultsByIndex read by index, 0 .. toolUseBlocks.length - 1
AnthropicToolResults ==
    <<[role |-> "user", ids |-> <<>>,
       results |-> [ti \in 1..Len(calls) |->
                      [tool_use_id |-> results[ti].toolUseId,
                       content |-> results[ti].content]]]>>

\* results appended in the order the tools ran
OpenAIResultsInRunOrder ==
    LET order == sequentialTools \o spawnTasks IN
    [k \in 1..Len(calls) |->
        [role |-> "tool", ids |-> <<>>,
         results |-> <<[tool_use_id |-> calls[order[k]].id,
                        content |-> results[calls[order[k]].id].content]>>]]

\* the tool messages of the step, as the OpenAI loop appends them: one per
\* call of parsedToolCalls, looked up by id
OpenAIToolResults ==
    [k \in 1..Len(calls) |->
        [role |-> "tool", ids |-> <<>>,
         results |-> <<[tool_use_id |-> calls[k].id,
                        content |-> IF calls[k].id \in DOMAIN results
                                    THEN results[calls[k].id].content
                                    ELSE NoContent]>>]]

\* "Build final tool results in original order" and the end of the iteration
Collect ==
    /\ pc = "collect"
    /\ IF variant = "anthropic" /\ \E ti \in DOMAIN calls : ti \notin DOMAIN results
       THEN \* resultsByIndex[ti] is undefined: reading .toolUseId throws
            /\ Finish(Throw(<<"TypeError">>))
            /\ UNCHANGED <<messages, step>>
       ELSE /\ messages' = messages \o
                  (IF variant = "anthropic" THEN AnthropicToolResults ELSE OpenAIToolResults)
            /\ step' = step + 1
            /\ pc' = "loop"
            /\ UNCHANGED <<status, outcome>>
    /\ ev' = {}
    \* the locals of the iteration go out of scope
    /\ pos' = 0 /\ batch' = 0 /\ results' = <<>>
    /\ pendingIds' = <<>> /\ toolCards' = <<>> /\ tasks' = <<>>
    /\ UNCHANGED <<stepText, nonAgentVars>>
    /\ UNCHANGED <<variant, conc, aborted, calls>>

(***************************************************************************)
(* Sub-agents: runSubAgent, runSubAgentAnthropic, runSubAgentOpenAI, each  *)
(* started by executeTool's spawn_task branch from a batch callback.       *)
(***************************************************************************)
\* what a response of the sub-agent's provider carries: no tool use, or one
SubUses == {"none", "read_file", "run_command"}

\* top of the sub-agent's for loop at step s: the budget, the abort check,
\* the request.  NoOutcome: the request is in flight.
SubLoopTop(s) ==
    IF s >= subMaxToolSteps THEN Return(<<"sub finalText">>)
    ELSE IF aborted THEN Throw(RunCancelledMsg)
    ELSE NoOutcome

\* The batch callback of call i goes on after runSubAgent has settled as
\* `inner` (NoOutcome: it has not, the sub-agent awaits its request at step
\* s): executeTool's catch, then onToolEnd and the result.
SubContinue(i, s, inner, evs) ==
    IF inner.kind = "none"
    THEN /\ tasks' = [tasks EXCEPT ![i] = [st |-> "req", sstep |-> s]]
         /\ ev' = evs \cup {Ev("request", "sub", i)}
         /\ UNCHANGED <<toolCards, results>>
    ELSE LET o == ExecuteTool(FALSE, "spawn_task", GoodArgs, TRUE, inner) IN
         IF o.kind = "throw"
         THEN /\ tasks' = [tasks EXCEPT ![i] = [st |-> "rejected", sstep |-> 0]]
              /\ ev' = evs \cup {EvSettle(o, "main", i)}
              /\ UNCHANGED <<toolCards, results>>
         ELSE /\ tasks' = [tasks EXCEPT ![i] = [st |-> "fulfilled", sstep |-> 0]]
              /\ toolCards' = [toolCards EXCEPT ![pendingIds[KeyOf(i)]] = "done"]
              /\ results' = StoreResult(i)
              /\ ev' = evs \cup {EvSettle(o, "main", i), Ev("onToolEnd", "main", i)}

SubFrame == UNCHANGED <<variant, conc, aborted, pc, step, calls, pos, batch,
                        pendingIds, messages, status, outcome, stepText,
                        nonAgentVars>>

\* await ctx.getCredential(provider.id) settles
SubCredential(i) ==
    /\ tasks[i].st = "cred"
    /\ Quiet
    /\ \/ SubContinue(i, 0, Return(<<"Error: credential not configured.">>), {})
       \/ SubContinue(i, 0, SubLoopTop(0), {})
    /\ SubFrame

\* the sub-agent's provider request is answered
SubResponse(i) ==
    /\ tasks[i].st = "req"
    /\ ~aborted
    /\ Quiet
    /\ LET s == tasks[i].sstep IN
       \E use \in SubUses :
         IF use = "none" THEN SubContinue(i, s, Return(<<"sub stepText">>), {})
         ELSE IF use = "run_command"
         THEN /\ tasks' = [tasks EXCEPT ![i] = [st |-> "cmd", sstep |-> s]]
              /\ ev' = {Ev("exec", "sub", i)}
              /\ UNCHANGED <<toolCards, results>>
         ELSE SubContinue(i, s + 1, SubLoopTop(s + 1), {Ev("exec", "sub", i)})
    /\ SubFrame

\* the sub-agent's provider request fails with a transport error
SubTransportError(i) ==
    /\ tasks[i].st = "req"
    /\ ~aborted
    /\ Quiet
    /\ SubContinue(i, tasks[i].sstep, Throw(<<"transport error">>), {})
    /\ SubFrame

\* The sub-agent's request was in flight when the signal was raised
\* ({ signal: abortSignal }): the SDK settles it with its own abort error.
SubRequestAborted(i) ==
    /\ tasks[i].st = "req"
    /\ aborted
    /\ Quiet
    /\ SubContinue(i, tasks[i].sstep, Throw(SdkAbortMsg), {})
    /\ SubFrame

\* runCommand inside the sub-agent settles: close, timeout or the abort
\* listener.  The sub-agent's own executeTool has no sub-agent context.
SubCmdSettled(i) ==
    /\ tasks[i].st \in {"cmd", "cmdAborted"}
    /\ tasks[i].st = "cmd" => Quiet
    /\ LET s == tasks[i].sstep IN
       \E inner \in (IF tasks[i].st = "cmdAborted" THEN {Throw(RunCancelledMsg)}
                     ELSE CommandOutcomes) :
       LET o == ExecuteTool(FALSE, "run_command", GoodArgs, FALSE, inner) IN
       IF o.kind = "throw" THEN SubContinue(i, s, o, {})
       ELSE SubContinue(i, s + 1, SubLoopTop(s + 1), {})
    /\ SubFrame

\* run:cancel: controller.abort() runs the abort listeners of the commands
\* that are running
Cancel ==
    /\ ~aborted
    /\ pc # "done"
    /\ Quiet
    /\ aborted' = TRUE
    /\ pc' = IF pc = "seqCmd" THEN "seqCmdAborted" ELSE pc
    /\ tasks' = [i \in DOMAIN tasks |->
                   IF tasks[i].st = "cmd"
                   THEN [tasks[i] EXCEPT !.st = "cmdAborted"] ELSE tasks[i]]
    /\ ev' = {}
    /\ UNCHANGED <<stepText, nonAgentVars>>
    /\ UNCHANGED <<variant, conc, step, calls, pos, batch, results, pendingIds,
                   toolCards, messages, status, outcome>>

NextAgent ==
    \/ GotCredential
    \/ LoopTop
    \/ StreamComplete
    \/ StreamTransportError
    \/ StreamAbortError
    \/ StreamEventAfterAbort
    \/ StreamEndsOnAbort
    \/ SeqTool
    \/ SeqCmdSettled
    \/ EmitCard
    \/ LaunchBatch
    \/ BatchSettled
    \/ Collect
    \/ \E i \in DOMAIN tasks : SubCredential(i)
    \/ \E i \in DOMAIN tasks : SubResponse(i)
    \/ \E i \in DOMAIN tasks : SubTransportError(i)
    \/ \E i \in DOMAIN tasks : SubRequestAborted(i)
    \/ \E i \in DOMAIN tasks : SubCmdSettled(i)
    \/ Cancel

(***************************************************************************)
(* One call of executeTool, for every tool name, argument shape, state of  *)
(* the signal at entry and way the callee settles.                         *)
(***************************************************************************)
PathEscapeMsg == <<"Path escapes project root">>
ExecNames == KnownTools \cup {"no_such_tool"}
ArgShapes == [skill_id : BOOLEAN, prompt : BOOLEAN]

\* how the operation a branch calls can settle
InnerOutcomes(name) ==
    IF name \in FileTools
    THEN {Return(<<"file tool text">>), Throw(PathEscapeMsg), Throw(<<"ENOENT">>)}
    ELSE IF name = "run_command"
    THEN {Return(<<"stdout">>), Throw(<<"Command timed out">>), Throw(<<"spawn ENOENT">>),
          Throw(RunCancelledMsg)}
    ELSE IF name = "load_skill"
    THEN {Return(<<"Skill not found">>), Return(<<"skill_content">>), Throw(<<"EACCES">>)}
    ELSE IF name = "spawn_task"
    THEN {Return(<<"sub stepText">>), Throw(<<"transport error">>), Throw(SdkAbortMsg),
          Throw(RunCancelledMsg)}
    ELSE {NoOutcome}

\* the branches that await their callee
Awaits(c) ==
    /\ ~c.isAborted
    /\ \/ c.name = "run_command"
       \/ c.name = "spawn_task" /\ c.hasCtx /\ c.args.prompt

IdleCall == [phase |-> "idle", name |-> "", args |-> GoodArgs, hasCtx |-> FALSE,
             isAborted |-> FALSE, inner |-> NoOutcome, out |-> NoOutcome]

\* executeTool is called and runs to its first await, or to its end
ExecEnter ==
    /\ xcall.phase = "idle"
    /\ \E name \in ExecNames, args \in ArgShapes, hasCtx \in BOOLEAN,
          isAborted \in BOOLEAN :
       \E inner \in InnerOutcomes(name) :
          LET c == [phase |-> "awaiting", name |-> name, args |-> args,
                    hasCtx |-> hasCtx, isAborted |-> isAborted,
                    inner |-> inner, out |-> NoOutcome]
          IN  xcall' = IF Awaits(c) THEN c
                       ELSE [c EXCEPT !.phase = "settled",
                                      !.out = ExecuteTool(isAborted, name, args, hasCtx, inner)]
    /\ UNCHANGED <<agentVars, providerVars, mcp, fsop, budget, duo, sub, ed, cmd, srch, oa, us, hd, fl, mdl, rc, rf, mg, th>>

\* runCommand / runSubAgent settles and executeTool goes on to its end
ExecAwaited ==
    /\ xcall.phase = "awaiting"
    /\ xcall' = [xcall EXCEPT !.phase = "settled",
                              !.out = ExecuteTool(xcall.isAborted, xcall.name, xcall.args,
                                                  xcall.hasCtx, xcall.inner)]
    /\ UNCHANGED <<agentVars, providerVars, mcp, fsop, budget, duo, sub, ed, cmd, srch, oa, us, hd, fl, mdl, rc, rf, mg, th>>

NextExec == ExecEnter \/ ExecAwaited

(***************************************************************************)
(* Path confinement of the file tools.  A path is its sequence of          *)
(* segments, a segment and a path string are sequences of characters.      *)
(***************************************************************************)
Up == <<".", ".">>
Here == <<".">>
SegNames == {<<"p">>, <<"p", "q">>, <<"f">>}
Segments == SegNames \cup {Up, Here}
\* the project roots "/r/p" and "/p"
Roots == {<< <<"r">>, <<"p">> >>, << <<"p">> >>}
RelPaths == SeqsUpTo(Segments, MaxSegs)

RECURSIVE Normalize(_, _)
Normalize(acc, segs) ==
    IF segs = <<>> THEN acc
    ELSE LET sg == Head(segs) IN
         Normalize(IF sg = Here THEN acc
                   ELSE IF sg = Up
                        THEN (IF acc = <<>> THEN acc ELSE SubSeq(acc, 1, Len(acc) - 1))
                        ELSE Append(acc, sg),
                   Tail(segs))
\* path.resolve(root, target) for an absolute root and a relative target
PathResolve(root, target) == Normalize(Normalize(<<>>, root), target)

RECURSIVE JoinSegs(_)
JoinSegs(segs) ==
    IF segs = <<>> THEN <<>> ELSE <<"/">> \o Head(segs) \o JoinSegs(Tail(segs))
\* the string of an absolute path
PathString(segs) == IF segs = <<>> THEN <<"/">> ELSE JoinSegs(segs)
\* String.prototype.startsWith
StartsWith(str, prefix) ==
    Len(str) >= Len(prefix) /\ SubSeq(str, 1, Len(prefix)) = prefix
\* path.dirname
Dirname(segs) == IF segs = <<>> THEN segs ELSE SubSeq(segs, 1, Len(segs) - 1)

resolveInsideProject(projectRoot, targetPath) ==
    LET resolved == PathResolve(projectRoot, IF targetPath = <<>> THEN <<Here>> ELSE targetPath)
        normalizedRoot == PathResolve(projectRoot, <<>>)
    IN  IF ~StartsWith(PathString(resolved), PathString(normalizedRoot))
        THEN [ok |-> FALSE, path |-> <<>>]
        ELSE [ok |-> TRUE, path |-> resolved]

\* What a file tool did: how it settled and which paths it handed to fs.
Touch(mode, path) == [mode |-> mode, path |-> path]
Escaped == [out |-> Throw(PathEscapeMsg), touched |-> {}]

listFiles(projectRoot, relativePath) ==
    LET r == resolveInsideProject(projectRoot, relativePath) IN
    IF ~r.ok THEN Escaped
    ELSE [out |-> Return(<<"entries">>), touched |-> {Touch("readdir", r.path)}]

readTextFile(projectRoot, relativePath) ==
    LET r == resolveInsideProject(projectRoot, relativePath) IN
    IF ~r.ok THEN Escaped
    ELSE [out |-> Return(<<"content">>),
          touched |-> {Touch("stat", r.path), Touch("read", r.path)}]

writeTextFile(projectRoot, relativePath) ==
    LET r == resolveInsideProject(projectRoot, relativePath) IN
    IF ~r.ok THEN Escaped
    ELSE [out |-> Return(<<"ok">>),
          touched |-> {Touch("mkdir", Dirname(r.path)), Touch("write", r.path)}]

editFile(projectRoot, relativePath, sameStrings) ==
    IF sameStrings
    THEN [out |-> Throw(<<"oldString and newString must be different">>), touched |-> {}]
    ELSE LET r == resolveInsideProject(projectRoot, relativePath) IN
         IF ~r.ok THEN Escaped
         ELSE [out |-> Return(<<"Edit applied successfully.">>),
               touched |-> {Touch("stat", r.path), Touch("read", r.path),
                            Touch("write", r.path)}]

globFiles(projectRoot, searchPath) ==
    LET r == resolveInsideProject(projectRoot, searchPath) IN
    IF ~r.ok THEN Escaped
    ELSE [out |-> Return(<<"matches">>), touched |-> {Touch("readdir", r.path)}]

grepFiles(projectRoot, searchPath) ==
    LET r == resolveInsideProject(projectRoot, searchPath) IN
    IF ~r.ok THEN Escaped
    ELSE [out |-> Return(<<"matches">>),
          touched |-> {Touch("readdir", r.path), Touch("read", r.path)}]

PathTools == {"listFiles", "readTextFile", "writeTextFile", "editFile", "globFiles",
              "grepFiles"}

RunFileTool(tool, root, target, sameStrings) ==
    IF tool = "listFiles" THEN listFiles(root, target)
    ELSE IF tool = "readTextFile" THEN readTextFile(root, target)
    ELSE IF tool = "writeTextFile" THEN writeTextFile(root, target)
    ELSE IF tool = "editFile" THEN editFile(root, target, sameStrings)
    ELSE IF tool = "globFiles" THEN globFiles(root, target)
    ELSE grepFiles(root, target)

IdleFsop == [phase |-> "idle", tool |-> "", root |-> <<>>, target |-> <<>>,
             sameStrings |-> FALSE, out |-> NoOutcome, touched |-> {}]

\* a file tool is called on a project root with a relative path
FsCall ==
    /\ fsop.phase = "idle"
    /\ \E tool \in PathTools, root \in Roots, target \in RelPaths, same \in BOOLEAN :
          /\ same => tool = "editFile"
          /\ fsop' = [phase |-> "called", tool |-> tool, root |-> root, target |-> target,
                      sameStrings |-> same, out |-> NoOutcome, touched |-> {}]
    /\ UNCHANGED <<agentVars, providerVars, mcp, xcall, budget, duo, sub, ed, cmd, srch, oa, us, hd, fl, mdl, rc, rf, mg, th>>

\* the tool runs (it is synchronous)
FsRun ==
    /\ fsop.phase = "called"
    /\ LET r == RunFileTool(fsop.tool, fsop.root, fsop.target, fsop.sameStrings) IN
       fsop' = [fsop EXCEPT !.phase = "done", !.out = r.out, !.touched = r.touched]
    /\ UNCHANGED <<agentVars, providerVars, mcp, xcall, budget, duo, sub, ed, cmd, srch, oa, us, hd, fl, mdl, rc, rf, mg, th>>

NextPath == FsCall \/ FsRun

(***************************************************************************)
(* The step budget.  One loop, of the main agent or of a sub-agent, is     *)
(* followed by its loop variable and the requests it has sent, for every   *)
(* value of its setting and every sequence of responses.                   *)
(***************************************************************************)
\* step <= max in the place of step < max
WithinBudgetInclusive(s, max) == s <= max

\* the condition of the for loop: step < maxToolSteps
WithinBudget(s, max) == s < max

BudgetOf(b) ==
    IF b.who = "main" THEN MaxToolStepsOf(b.setting) ELSE SubMaxToolStepsOf(b.setting)

IdleBudget == [pc |-> "idle", who |-> "main", setting |-> 0, step |-> 0, requests |-> 0]

\* a loop starts with its setting
BudgetStart ==
    /\ budget.pc = "idle"
    /\ \E who \in {"main", "sub"}, setting \in 0..MaxBudgetSetting :
          budget' = [pc |-> "loop", who |-> who, setting |-> setting,
                     step |-> 0, requests |-> 0]
    /\ UNCHANGED <<agentVars, providerVars, mcp, xcall, fsop, duo, sub, ed, cmd, srch, oa, us, hd, fl, mdl, rc, rf, mg, th>>

\* the head of the loop and the request of the step
BudgetRequest ==
    /\ budget.pc = "loop"
    /\ budget' = IF WithinBudget(budget.step, BudgetOf(budget))
                 THEN [budget EXCEPT !.pc = "stream", !.requests = @ + 1]
                 ELSE [budget EXCEPT !.pc = "done"]
    /\ UNCHANGED <<agentVars, providerVars, mcp, xcall, fsop, duo, sub, ed, cmd, srch, oa, us, hd, fl, mdl, rc, rf, mg, th>>

\* the abort check at the head of the loop throws
BudgetCancelled ==
    /\ budget.pc = "loop"
    /\ WithinBudget(budget.step, BudgetOf(budget))
    /\ budget' = [budget EXCEPT !.pc = "done"]
    /\ UNCHANGED <<agentVars, providerVars, mcp, xcall, fsop, duo, sub, ed, cmd, srch, oa, us, hd, fl, mdl, rc, rf, mg, th>>

\* the response has tool calls: they run, and the loop goes on
BudgetToolStep ==
    /\ budget.pc = "stream"
    /\ budget' = [budget EXCEPT !.pc = "loop", !.step = @ + 1]
    /\ UNCHANGED <<agentVars, providerVars, mcp, xcall, fsop, duo, sub, ed, cmd, srch, oa, us, hd, fl, mdl, rc, rf, mg, th>>

\* the response has no tool call (break), or the request or a tool throws
BudgetLeave ==
    /\ budget.pc = "stream"
    /\ budget' = [budget EXCEPT !.pc = "done"]
    /\ UNCHANGED <<agentVars, providerVars, mcp, xcall, fsop, duo, sub, ed, cmd, srch, oa, us, hd, fl, mdl, rc, rf, mg, th>>

NextBudget ==
    \/ BudgetStart
    \/ BudgetRequest
    \/ BudgetCancelled
    \/ BudgetToolStep
    \/ BudgetLeave

(***************************************************************************)
(* The two loops on one script.  A script is what the provider answers,    *)
(* step by step, and `cancel` is where run:cancel arrives; the run of a    *)
(* loop on them is the sequence of its callbacks, the tool results it      *)
(* feeds back, its token totals and the way it settles.  Nothing but the   *)
(* script and the cancellation is left open: a file tool, a command and a  *)
(* sub-agent each settle in one given way, and settings.maxConcurrentTasks *)
(* is 1, so that a batch is one task.                                      *)
(***************************************************************************)
ScriptNames == {"read_file", "run_command", "spawn_task"}
ScriptResponses == [text : {<<>>, <<"hello">>}, names : SeqsUpTo(ScriptNames, ScriptCalls)]
Scripts == [1..ScriptSteps -> ScriptResponses]
\* run:cancel arrives in step k (0: never): while the loop waits for the
\* stream and nothing more is delivered, while it waits and one more event
\* is delivered, or while the first command of the step runs
CancelPoints ==
    {[k |-> 0, at |-> "never"]} \cup
    [k : 1..ScriptSteps, at : {"streamWait", "streamEvent", "command"}]

ScriptInner(name) ==
    IF name = "read_file" THEN Return(<<"file text">>)
    ELSE IF name = "run_command" THEN Return(<<"stdout">>)
    ELSE Return(<<"sub text">>)

Callback(cb, id, text) == [cb |-> cb, id |-> id, text |-> text]

\* the state a scripted run carries from one statement to the next
StartRun == [events |-> <<>>, fed |-> <<>>, aborted |-> FALSE,
             inputTokens |-> 0, outputTokens |-> 0, exit |-> NoOutcome]
Exit(acc, o) == [acc EXCEPT !.exit = o]
Emit(acc, c) == [acc EXCEPT !.events = Append(@, c)]

\* toolUseBlocks / toolCalls of the k-th response
ScriptCallsOf(resp, k) ==
    [i \in 1..Len(resp.names) |->
        [id |-> IdOf(k, Len(resp.names), i), name |-> resp.names[i]]]

RECURSIVE RunSequential(_, _, _, _, _)
\* for (... of sequentialTools): abort check, onToolStart, executeTool, onToolEnd
RunSequential(cs, idxs, cancelHere, acc, store) ==
    IF idxs = <<>> THEN [acc |-> acc, store |-> store]
    ELSE IF acc.aborted THEN [acc |-> Exit(acc, Throw(RunCancelledMsg)), store |-> store]
    ELSE LET c == cs[Head(idxs)]
             started == Emit(acc, Callback("onToolStart", c.id, <<c.name>>))
             hit == cancelHere /\ c.name = "run_command"
             o == ExecuteTool(FALSE, c.name, GoodArgs, TRUE,
                              IF hit THEN Throw(RunCancelledMsg) ELSE ScriptInner(c.name))
         IN  IF o.kind = "throw"
             THEN [acc |-> Exit([started EXCEPT !.aborted = TRUE], o), store |-> store]
             ELSE RunSequential(cs, Tail(idxs), cancelHere /\ ~hit,
                                Emit(started, Callback("onToolEnd", c.id, o.msg)),
                                (Head(idxs) :> o.msg) @@ store)

RECURSIVE EmitCards(_, _, _)
\* "Emit all pending cards first"
EmitCards(cs, idxs, acc) ==
    IF idxs = <<>> THEN acc
    ELSE EmitCards(cs, Tail(idxs),
                   Emit(acc, Callback("onToolStart", cs[Head(idxs)].id, <<cs[Head(idxs)].name>>)))

RECURSIVE RunTasks(_, _, _, _)
\* the batches one after the other; with one task per batch, a batch is its
\* task: executeTool, onToolEnd, the result
RunTasks(cs, idxs, acc, store) ==
    IF idxs = <<>> THEN [acc |-> acc, store |-> store]
    ELSE LET c == cs[Head(idxs)]
             o == ExecuteTool(acc.aborted, c.name, GoodArgs, TRUE, ScriptInner(c.name))
         IN  IF o.kind = "throw" THEN [acc |-> Exit(acc, o), store |-> store]
             ELSE RunTasks(cs, Tail(idxs),
                           Emit(acc, Callback("onToolEnd", c.id, o.msg)),
                           (Head(idxs) :> o.msg) @@ store)

\* the tool results appended after the tools of a step, in the order of the
\* calls: by index (Anthropic), by id (OpenAI; a missing entry reads as "")
FedResults(v, cs, store) ==
    [i \in 1..Len(cs) |->
        [tool_use_id |-> cs[i].id,
         content |-> IF v = "anthropic" THEN store[i]
                     ELSE LET js == {j \in DOMAIN store : cs[j].id = cs[i].id}
                          IN  IF js = {} THEN <<>>
                              ELSE store[CHOOSE j \in js : \A j2 \in js : j2 <= j]]]

\* the tools of one step, from the partition to the tool results
RunTools(v, cs, cancelHere, acc) ==
    LET seqIdx == Filter(cs, 1, FALSE)
        spawnIdx == Filter(cs, 1, TRUE)
        afterSeq == RunSequential(cs, seqIdx, cancelHere, acc, <<>>)
        afterCards == EmitCards(cs, spawnIdx, afterSeq.acc)
        afterTasks == RunTasks(cs, spawnIdx, afterCards, afterSeq.store)
    IN  IF afterSeq.acc.exit # NoOutcome THEN afterSeq.acc
        ELSE IF afterTasks.acc.exit # NoOutcome THEN afterTasks.acc
        ELSE [afterTasks.acc EXCEPT !.fed = @ \o FedResults(v, cs, afterTasks.store)]

\* what the for-await loop leaves when run:cancel arrives during it
StreamUnderCancel(v, at) ==
    IF at = "streamEvent" THEN Throw(RunCancelledMsg)
    ELSE IF v = "anthropic" THEN Throw(SdkAbortMsg)
    ELSE NoOutcome

RECURSIVE RunLoop(_, _, _, _, _)
\* for (let step = 0; step < maxToolSteps; step += 1), maxToolSteps being
\* the length of the script; k is step + 1
RunLoop(v, script, cancel, k, acc) ==
    IF k > Len(script)
    THEN Exit(acc, Return(IF script[Len(script)].text # <<>>
                          THEN script[Len(script)].text ELSE MaxStepsMsg))
    ELSE IF acc.aborted THEN Exit(acc, Throw(RunCancelledMsg))
    ELSE LET resp == script[k]
             cs == ScriptCallsOf(resp, k)
             inStream == cancel.k = k /\ cancel.at \in {"streamWait", "streamEvent"}
             broken == IF inStream THEN StreamUnderCancel(v, cancel.at) ELSE NoOutcome
             counted == [acc EXCEPT !.aborted = inStream,
                                    !.inputTokens = @ + k,
                                    !.outputTokens = @ + 1]
             told == IF NonBlank(resp.text)
                     THEN Emit(counted, Callback("onText", 0, resp.text)) ELSE counted
             done == RunTools(v, cs, cancel.k = k /\ cancel.at = "command", told)
         IN  IF broken # NoOutcome THEN Exit([acc EXCEPT !.aborted = TRUE], broken)
             ELSE IF Len(cs) = 0 THEN Exit(counted, Return(resp.text))
             ELSE IF done.exit # NoOutcome THEN done
             ELSE RunLoop(v, script, cancel, k + 1, done)

\* runAnthropicAgent / runOpenAIAgent on a script
RunScript(v, script, cancel) == RunLoop(v, script, cancel, 1, StartRun)

IdleDuo == [phase |-> "idle", script |-> <<>>, cancel |-> [k |-> 0, at |-> "never"],
            anthropic |-> StartRun, openai |-> StartRun]

\* a script and a cancellation are fixed
DuoScript ==
    /\ duo.phase = "idle"
    /\ \E script \in Scripts, cancel \in CancelPoints :
          duo' = [IdleDuo EXCEPT !.phase = "scripted", !.script = script, !.cancel = cancel]
    /\ UNCHANGED <<agentVars, providerVars, mcp, xcall, fsop, budget, sub, ed, cmd, srch, oa, us, hd, fl, mdl, rc, rf, mg, th>>

\* runAnthropicAgent makes the run
DuoAnthropic ==
    /\ duo.phase \in {"scripted", "openai"}
    /\ duo' = [duo EXCEPT !.phase = IF duo.phase = "scripted" THEN "anthropic" ELSE "both",
                          !.anthropic = RunScript("anthropic", duo.script, duo.cancel)]
    /\ UNCHANGED <<agentVars, providerVars, mcp, xcall, fsop, budget, sub, ed, cmd, srch, oa, us, hd, fl, mdl, rc, rf, mg, th>>

\* runOpenAIAgent makes the run
DuoOpenAI ==
    /\ duo.phase \in {"scripted", "anthropic"}
    /\ duo' = [duo EXCEPT !.phase = IF duo.phase = "scripted" THEN "openai" ELSE "both",
                          !.openai = RunScript("openai", duo.script, duo.cancel)]
    /\ UNCHANGED <<agentVars, providerVars, mcp, xcall, fsop, budget, sub, ed, cmd, srch, oa, us, hd, fl, mdl, rc, rf, mg, th>>

NextDuo == DuoScript \/ DuoAnthropic \/ DuoOpenAI

(***************************************************************************)
(* The tool-provider client, McpClient of src/main/credentials.ts, used as *)
(* McpManager uses it: connect() once on a new client, tools/call only on  *)
(* a client that connect() has returned and whose connected flag is set,   *)
(* disconnect() on a client that connect() has returned.  A request is     *)
(* named by the order of its sendRequest call, which stands for its        *)
(* nanoid.  A handler runs to completion together with the continuations   *)
(* it wakes up: a rejection of a request of connect() is followed by the   *)
(* catch block of connect() in the same action.                            *)
(***************************************************************************)
RpcIds == 1..MaxRequests
NoLine == [kind |-> "none", id |-> 0]
\* what one line of the subprocess's output can be
Lines ==
    {[kind |-> "blank", id |-> 0],
     [kind |-> "malformed", id |-> 0],
     [kind |-> "notification", id |-> 0]}
        \cup [kind : {"result", "error"}, id : RpcIds]
NotConnectedErr == "MCP server not connected"
TimeoutErr == "MCP request timed out"
ExitErr == "MCP server process exited"
McpErr == "MCP error"
\* the catalogue the server answers tools/list with
ServerCatalogue == {"search"}
NoRequest ==
    [method |-> "", origin |-> "", state |-> "unissued", err |-> "",
     timer |-> FALSE, settles |-> 0]
IdleMcp ==
    [hs |-> "idle", process |-> "null", child |-> "none", connected |-> FALSE,
     tools |-> {}, pending |-> {}, buffer |-> NoLine,
     reqs |-> [i \in RpcIds |-> NoRequest], nextId |-> 1,
     rx |-> NoLine, fired |-> 0]

\* this.process?.stdin?.writable
Writable(m) == m.process = "set" /\ m.child = "running"

\* resolve / reject of the promise of a request; a settled promise keeps
\* its state, the calls are counted
Settle(m, id, state, err) ==
    [m EXCEPT !.reqs[id] =
        [@ EXCEPT !.state = IF @ = "pending" THEN state ELSE @,
                  !.err = IF m.reqs[id].state = "pending" THEN err ELSE @,
                  !.settles = IF @ < 2 THEN @ + 1 ELSE @]]

sendRequest(m, method, origin) ==
    LET id == m.nextId IN
    IF ~Writable(m)
    THEN [m EXCEPT !.reqs[id] = [method |-> method, origin |-> origin,
                                 state |-> "rejected", err |-> NotConnectedErr,
                                 timer |-> FALSE, settles |-> 1],
                   !.nextId = id + 1]
    ELSE [m EXCEPT !.reqs[id] = [method |-> method, origin |-> origin,
                                 state |-> "pending", err |-> "",
                                 timer |-> TRUE, settles |-> 0],
                   !.pending = @ \cup {id},
                   !.nextId = id + 1]

disconnect(m) ==
    [m EXCEPT !.process = "null",
              !.child = IF m.process = "set" /\ @ = "running" THEN "killed" ELSE @,
              !.connected = FALSE,
              !.tools = {},
              !.pending = {},
              !.buffer = NoLine]

\* the catch block of connect()
ConnectFailed(m) == [disconnect(m) EXCEPT !.hs = "failed"]

\* connect() after initialize has resolved
ConnectInitialized(m) ==
    LET m1 == sendRequest([m EXCEPT !.connected = TRUE], "tools/list", "connect") IN
    IF m1.reqs[m.nextId].state = "rejected"
    THEN ConnectFailed(m1)
    ELSE [m1 EXCEPT !.hs = "list"]

\* the continuation that awaits request id, run once the request is settled
AfterSettle(m, id) ==
    LET r == m.reqs[id] IN
    IF r.origin = "connect"
    THEN IF r.state = "rejected" THEN ConnectFailed(m)
         ELSE IF r.method = "initialize" THEN ConnectInitialized(m)
         ELSE [m EXCEPT !.tools = ServerCatalogue, !.hs = "done"]
    ELSE IF r.method = "tools/list" /\ r.state = "resolved"
         THEN [m EXCEPT !.tools = ServerCatalogue]
         ELSE m

\* the timer callback empties the pending table
TimerFiredClearsAll(m, id) ==
    LET m1 == [m EXCEPT !.reqs[id].timer = FALSE] IN
    IF id \in m.pending
    THEN AfterSettle(Settle([m1 EXCEPT !.pending = {}], id, "rejected", TimeoutErr), id)
    ELSE m1

\* the timer callback disconnects the client
TimerFiredDisconnects(m, id) ==
    LET m1 == [m EXCEPT !.reqs[id].timer = FALSE] IN
    IF id \in m.pending
    THEN disconnect(AfterSettle(Settle([m1 EXCEPT !.pending = @ \ {id}], id,
                                       "rejected", TimeoutErr), id))
    ELSE m1

\* the setTimeout callback of sendRequest
TimerFired(m, id) ==
    LET m1 == [m EXCEPT !.reqs[id].timer = FALSE] IN
    IF id \in m.pending
    THEN AfterSettle(Settle([m1 EXCEPT !.pending = @ \ {id}], id,
                            "rejected", TimeoutErr), id)
    ELSE m1

\* the entry of an answered request stays in the pending table
processLineKeepsEntry(m, line) ==
    IF line.kind \in {"result", "error"} /\ line.id \in m.pending
    THEN AfterSettle(
             IF line.kind = "error"
             THEN Settle(m, line.id, "rejected", McpErr)
             ELSE Settle(m, line.id, "resolved", ""),
             line.id)
    ELSE m

\* the body of the loop of processBuffer, for one line
processLine(m, line) ==
    IF line.kind \in {"result", "error"} /\ line.id \in m.pending
    THEN LET m1 == [m EXCEPT !.pending = @ \ {line.id}] IN
         AfterSettle(
             IF line.kind = "error"
             THEN Settle(m1, line.id, "rejected", McpErr)
             ELSE Settle(m1, line.id, "resolved", ""),
             line.id)
    ELSE m

\* the "close" handler of the subprocess
closeHandler(m) ==
    LET m1 == [m EXCEPT
                 !.child = "closed",
                 !.connected = FALSE,
                 !.pending = {},
                 !.reqs = [i \in RpcIds |->
                     IF i \in m.pending
                     THEN [@[i] EXCEPT !.state = "rejected", !.err = ExitErr,
                                       !.settles = IF @ < 2 THEN @ + 1 ELSE @]
                     ELSE @[i]]] IN
    IF \E i \in m.pending : m.reqs[i].origin = "connect"
    THEN ConnectFailed(m1)
    ELSE m1

\* what a handler that is no line and no timer leaves behind
Quietly(m) == [m EXCEPT !.rx = NoLine, !.fired = 0]

\* McpManager.connectServer: connect() on a new client
McpConnect ==
    /\ mcp.hs = "idle"
    /\ mcp' = Quietly([sendRequest([mcp EXCEPT !.process = "set", !.child = "running"],
                                   "initialize", "connect")
                          EXCEPT !.hs = "initialize"])
    /\ UNCHANGED <<agentVars, providerVars, xcall, fsop, budget, duo, sub, ed, cmd, srch, oa, us, hd, fl, mdl, rc, rf, mg, th>>

\* McpManager.callTool
McpCallTool ==
    /\ mcp.hs = "done"
    /\ mcp.connected
    /\ mcp.nextId <= MaxRequests
    /\ mcp' = Quietly(sendRequest(mcp, "tools/call", "caller"))
    /\ UNCHANGED <<agentVars, providerVars, xcall, fsop, budget, duo, sub, ed, cmd, srch, oa, us, hd, fl, mdl, rc, rf, mg, th>>

\* refreshTools() on a client that connectServer has returned
McpRefreshTools ==
    /\ mcp.hs = "done"
    /\ mcp.nextId <= MaxRequests
    /\ mcp' = Quietly(sendRequest(mcp, "tools/list", "caller"))
    /\ UNCHANGED <<agentVars, providerVars, xcall, fsop, budget, duo, sub, ed, cmd, srch, oa, us, hd, fl, mdl, rc, rf, mg, th>>

\* McpManager.disconnectServer / disconnectAll / connectServer on a
\* registered client
McpDisconnect ==
    /\ mcp.hs = "done"
    /\ mcp' = Quietly(disconnect(mcp))
    /\ UNCHANGED <<agentVars, providerVars, xcall, fsop, budget, duo, sub, ed, cmd, srch, oa, us, hd, fl, mdl, rc, rf, mg, th>>

\* a "data" event that carries one whole line
McpData ==
    /\ mcp.child \in {"running", "killed"}
    /\ mcp.buffer = NoLine
    /\ \E line \in Lines :
          mcp' = [processLine(mcp, line) EXCEPT !.rx = line, !.fired = 0]
    /\ UNCHANGED <<agentVars, providerVars, xcall, fsop, budget, duo, sub, ed, cmd, srch, oa, us, hd, fl, mdl, rc, rf, mg, th>>

\* a "data" event that ends in the middle of a line: the line stays in buffer
McpDataPartial ==
    /\ mcp.child \in {"running", "killed"}
    /\ mcp.buffer = NoLine
    /\ \E line \in Lines : mcp' = Quietly([mcp EXCEPT !.buffer = line])
    /\ UNCHANGED <<agentVars, providerVars, xcall, fsop, budget, duo, sub, ed, cmd, srch, oa, us, hd, fl, mdl, rc, rf, mg, th>>

\* a "data" event that brings the end of the line kept in buffer
McpDataRest ==
    /\ mcp.child \in {"running", "killed"}
    /\ mcp.buffer # NoLine
    /\ mcp' = [processLine([mcp EXCEPT !.buffer = NoLine], mcp.buffer)
                  EXCEPT !.rx = mcp.buffer, !.fired = 0]
    /\ UNCHANGED <<agentVars, providerVars, xcall, fsop, budget, duo, sub, ed, cmd, srch, oa, us, hd, fl, mdl, rc, rf, mg, th>>

\* the timer of a request expires; the timers all last 30 s, so they expire
\* in the order they were set
McpTimeout ==
    /\ \E id \in RpcIds :
          /\ mcp.reqs[id].timer
          /\ \A j \in RpcIds : j < id => ~mcp.reqs[j].timer
          /\ mcp' = [TimerFired(mcp, id) EXCEPT !.rx = NoLine, !.fired = id]
    /\ UNCHANGED <<agentVars, providerVars, xcall, fsop, budget, duo, sub, ed, cmd, srch, oa, us, hd, fl, mdl, rc, rf, mg, th>>

\* the subprocess exits, of itself or killed by disconnect()
McpChildClose ==
    /\ mcp.child \in {"running", "killed"}
    /\ mcp' = Quietly(closeHandler(mcp))
    /\ UNCHANGED <<agentVars, providerVars, xcall, fsop, budget, duo, sub, ed, cmd, srch, oa, us, hd, fl, mdl, rc, rf, mg, th>>

\* the "error" handler of the subprocess
McpProcessError ==
    /\ mcp.child \in {"running", "killed"}
    /\ mcp' = Quietly([mcp EXCEPT !.connected = FALSE])
    /\ UNCHANGED <<agentVars, providerVars, xcall, fsop, budget, duo, sub, ed, cmd, srch, oa, us, hd, fl, mdl, rc, rf, mg, th>>

NextMcp ==
    \/ McpConnect
    \/ McpCallTool
    \/ McpRefreshTools
    \/ McpDisconnect
    \/ McpData
    \/ McpDataPartial
    \/ McpDataRest
    \/ McpTimeout
    \/ McpChildClose
    \/ McpProcessError

(***************************************************************************)
(* One sub-agent run, runSubAgentAnthropic or runSubAgentOpenAI, of either *)
(* type, with a provider whose responses carry any tool names: what it is  *)
(* offered, and which callee each of its executeTool calls reaches.        *)
(***************************************************************************)
EXPLORE_TOOLS == {"list_files", "read_file", "glob", "grep"}
SubAgentTypes == {"general", "explore"}
\* buildAnthropicTools / buildOpenAITools
AllTools == KnownTools
\* the tools the request of a sub-agent carries
SubCatalogue(isExplore) ==
    IF isExplore THEN {t \in AllTools : t \in EXPLORE_TOOLS}
    ELSE {t \in AllTools : t # "spawn_task" /\ t # "load_skill"}
\* the names a response can carry: every tool, and a name that is no tool
ResponseNames == AllTools \cup {"bogus"}
SubResponses == SeqsUpTo(ResponseNames, SubCalls)
\* how the callee of a branch settles
SubInner == {Return(<<"result">>), Throw(<<"failure">>)}

\* the callee the try block of executeTool reaches, "" when it reaches none
Callee(isAborted, name, args, hasCtx) ==
    IF isAborted THEN ""
    ELSE IF name \in FileTools THEN name
    ELSE IF name = "run_command" THEN "runCommand"
    ELSE IF name = "load_skill" THEN
        IF ~args.skill_id THEN "" ELSE "loadSkillContent"
    ELSE IF name = "spawn_task" THEN
        IF ~hasCtx \/ ~args.prompt THEN "" ELSE "runSubAgent"
    ELSE ""

\* the sub-agent hands its own context on
SubAgentCtxInherited == TRUE
\* executeTool(projectRoot, t.name, t.input, abortSignal): no subAgentCtx
SubAgentCtxGiven == FALSE

IdleSub ==
    [pc |-> "idle", type |-> "general", variant |-> "anthropic", offered |-> {},
     step |-> 0, calls |-> <<>>, pos |-> 0, ran |-> "", nested |-> 0,
     last |-> NoOutcome, out |-> NoOutcome]

\* runSubAgent dispatches to the loop of the provider
SubStart ==
    /\ sub.pc = "idle"
    /\ \E v \in Variants, t \in SubAgentTypes :
          sub' = [sub EXCEPT !.pc = "loop", !.variant = v, !.type = t,
                             !.offered = SubCatalogue(t = "explore")]
    /\ UNCHANGED <<agentVars, providerVars, xcall, fsop, budget, duo, mcp, ed, cmd, srch, oa, us, hd, fl, mdl, rc, rf, mg, th>>

\* the top of the for loop: the budget, then the request; toolUses and the
\* result of the last call are locals of the iteration that has ended
SubRequest ==
    /\ sub.pc = "loop"
    /\ LET m == [sub EXCEPT !.ran = "", !.last = NoOutcome] IN
       sub' = IF sub.step < SubBudget
              THEN [m EXCEPT !.pc = "req"]
              ELSE [m EXCEPT !.pc = "done", !.out = Return(<<"sub finalText">>)]
    /\ UNCHANGED <<agentVars, providerVars, xcall, fsop, budget, duo, mcp, ed, cmd, srch, oa, us, hd, fl, mdl, rc, rf, mg, th>>

\* the response: no tool call is the final answer
SubAnswer ==
    /\ sub.pc = "req"
    /\ \E names \in SubResponses :
          sub' = IF names = <<>>
                 THEN [sub EXCEPT !.pc = "done", !.out = Return(<<"sub stepText">>)]
                 ELSE [sub EXCEPT !.pc = "tool", !.calls = names, !.pos = 1]
    /\ UNCHANGED <<agentVars, providerVars, xcall, fsop, budget, duo, mcp, ed, cmd, srch, oa, us, hd, fl, mdl, rc, rf, mg, th>>

\* one iteration of the loop over the tool calls of the response; `ran` is
\* the callee this call has reached, `last` what executeTool has returned
SubExecute ==
    /\ sub.pc = "tool"
    /\ LET name == sub.calls[sub.pos]
           callee == Callee(FALSE, name, GoodArgs, SubAgentCtxGiven)
           more == sub.pos < Len(sub.calls) IN
       \E inner \in (IF callee = "" THEN {NoOutcome} ELSE SubInner) :
          sub' = [sub EXCEPT
                    !.ran = callee,
                    !.nested = IF callee = "runSubAgent" /\ @ < 1 THEN @ + 1 ELSE @,
                    !.last = ExecuteTool(FALSE, name, GoodArgs, SubAgentCtxGiven, inner),
                    !.calls = IF more THEN @ ELSE <<>>,
                    !.pos = IF more THEN @ + 1 ELSE 0,
                    !.step = IF more THEN @ ELSE @ + 1,
                    !.pc = IF more THEN "tool" ELSE "loop"]
    /\ UNCHANGED <<agentVars, providerVars, xcall, fsop, budget, duo, mcp, ed, cmd, srch, oa, us, hd, fl, mdl, rc, rf, mg, th>>

NextSub == SubStart \/ SubRequest \/ SubAnswer \/ SubExecute

(***************************************************************************)
(* editFile on the content of one existing file inside the project: the    *)
(* strings are sequences of characters, and a file is edited once and then *)
(* once more with the same arguments.                                      *)
(***************************************************************************)
EditChars == {"a", "$", "&"}
EditContents == SeqsUpTo(EditChars, MaxContent)
EditStrings == SeqsUpTo(EditChars, MaxEditString)

\* String.prototype.indexOf(t, from), positions counted from 1, 0 for -1
RECURSIVE IndexOf(_, _, _)
IndexOf(s, t, from) ==
    IF from + Len(t) - 1 > Len(s) THEN 0
    ELSE IF SubSeq(s, from, from + Len(t) - 1) = t THEN from
    ELSE IndexOf(s, t, from + 1)

\* content.includes(oldString)
Includes(s, t) == IndexOf(s, t, 1) # 0

\* the while loop that counts the occurrences, for a non-empty oldString
RECURSIVE CountFrom(_, _, _)
CountFrom(s, t, from) ==
    LET i == IndexOf(s, t, from) IN
    IF i = 0 THEN 0 ELSE 1 + CountFrom(s, t, i + Len(t))

\* content.split(oldString), for a non-empty oldString
RECURSIVE Split(_, _)
Split(s, t) ==
    LET i == IndexOf(s, t, 1) IN
    IF i = 0 THEN <<s>>
    ELSE <<SubSeq(s, 1, i - 1)>> \o Split(SubSeq(s, i + Len(t), Len(s)), t)

\* content.split(""): the characters of content
SplitChars(s) == [k \in 1..Len(s) |-> <<s[k]>>]

\* pieces.join(sep)
RECURSIVE Join(_, _)
Join(pieces, sep) ==
    IF pieces = <<>> THEN <<>>
    ELSE IF Len(pieces) = 1 THEN pieces[1]
    ELSE pieces[1] \o sep \o Join(Tail(pieces), sep)

\* the replacement text of String.prototype.replace(string, string): "$$"
\* stands for "$" and "$&" for the matched text
RECURSIVE Substitution(_, _)
Substitution(new, matched) ==
    IF new = <<>> THEN <<>>
    ELSE IF Len(new) >= 2 /\ new[1] = "$" /\ new[2] = "$"
         THEN <<"$">> \o Substitution(SubSeq(new, 3, Len(new)), matched)
    ELSE IF Len(new) >= 2 /\ new[1] = "$" /\ new[2] = "&"
         THEN matched \o Substitution(SubSeq(new, 3, Len(new)), matched)
    ELSE <<new[1]>> \o Substitution(Tail(new), matched)

\* content.replace(oldString, newString), oldString being in content
ReplaceFirst(s, t, new) ==
    LET i == IndexOf(s, t, 1) IN
    SubSeq(s, 1, i - 1) \o Substitution(new, t) \o SubSeq(s, i + Len(t), Len(s))

EditResult(kind, count, content) == [kind |-> kind, count |-> count, content |-> content]
NoEdit == EditResult("none", 0, <<>>)

\* the updated content is computed but not written to the file
editContentDropsWrite(content, oldString, newString, replaceAll) ==
    IF oldString = newString THEN EditResult("same", 0, content)
    ELSE IF ~Includes(content, oldString) THEN EditResult("notFound", 0, content)
    ELSE IF ~replaceAll /\ oldString = <<>> THEN EditResult("hang", 0, content)
    ELSE IF ~replaceAll /\ CountFrom(content, oldString, 1) > 1
         THEN EditResult("ambiguous", CountFrom(content, oldString, 1), content)
    ELSE EditResult("ok", 1, content)

\* editFile, from the comparison of the two strings on, for a path that
\* resolves to an existing file; `content` of the result is the file after
\* the call, "hang" is the counting loop that does not end
editContent(content, oldString, newString, replaceAll) ==
    IF oldString = newString THEN EditResult("same", 0, content)
    ELSE IF ~Includes(content, oldString) THEN EditResult("notFound", 0, content)
    ELSE IF ~replaceAll /\ oldString = <<>> THEN EditResult("hang", 0, content)
    ELSE IF ~replaceAll /\ CountFrom(content, oldString, 1) > 1
         THEN EditResult("ambiguous", CountFrom(content, oldString, 1), content)
    ELSE LET pieces == IF oldString = <<>> THEN SplitChars(content)
                       ELSE Split(content, oldString) IN
         IF replaceAll
         THEN EditResult("ok", Len(pieces) - 1, Join(pieces, newString))
         ELSE EditResult("ok", 1, ReplaceFirst(content, oldString, newString))

IdleEdit ==
    [phase |-> "idle", file |-> <<>>, oldString |-> <<>>, newString |-> <<>>,
     replaceAll |-> FALSE, first |-> NoEdit, second |-> NoEdit]

\* a file and the arguments of edit_file
EditChoose ==
    /\ ed.phase = "idle"
    /\ \E c \in EditContents, o \in EditStrings, n \in EditStrings, all \in BOOLEAN :
          ed' = [ed EXCEPT !.phase = "chosen", !.file = c, !.oldString = o,
                           !.newString = n, !.replaceAll = all]
    /\ UNCHANGED <<agentVars, providerVars, xcall, fsop, budget, duo, mcp, sub, cmd, srch, oa, us, hd, fl, mdl, rc, rf, mg, th>>

\* the first call
EditFirst ==
    /\ ed.phase = "chosen"
    /\ LET r == editContent(ed.file, ed.oldString, ed.newString, ed.replaceAll) IN
       ed' = [ed EXCEPT !.phase = IF r.kind = "hang" THEN "hung" ELSE "once",
                        !.first = r]
    /\ UNCHANGED <<agentVars, providerVars, xcall, fsop, budget, duo, mcp, sub, cmd, srch, oa, us, hd, fl, mdl, rc, rf, mg, th>>

\* the same call again, on the file the first call has left
EditAgain ==
    /\ ed.phase = "once"
    /\ LET r == editContent(ed.first.content, ed.oldString, ed.newString, ed.replaceAll) IN
       ed' = [ed EXCEPT !.phase = IF r.kind = "hang" THEN "hung" ELSE "twice",
                        !.second = r]
    /\ UNCHANGED <<agentVars, providerVars, xcall, fsop, budget, duo, mcp, sub, cmd, srch, oa, us, hd, fl, mdl, rc, rf, mg, th>>

NextEdit == EditChoose \/ EditFirst \/ EditAgain

(***************************************************************************)
(* One run_command call: executeTool, runCommand, the child process and    *)
(* the three timers, on a clock in milliseconds that starts with the call. *)
(* A timer runs at its deadline: the clock does not pass a deadline that   *)
(* is armed.                                                               *)
(***************************************************************************)
NoDeadline == 0 - 1
Signal(sig, at) == [sig |-> sig, at |-> at]
TimedOutMsg == <<"Command timed out">>
IdleCmd ==
    [phase |-> "idle", now |-> 0, aborted |-> FALSE, child |-> "none",
     signals |-> <<>>, timeout |-> NoDeadline, kills |-> {}, listener |-> FALSE,
     out |-> NoOutcome, tool |-> NoOutcome]

\* settle without the check of `settled`
settleAgain(c, o) ==
    [c EXCEPT !.phase = "settled",
              !.timeout = NoDeadline,
              !.listener = FALSE,
              !.out = o,
              !.tool = ExecuteTool(FALSE, "run_command", GoodArgs, FALSE, o)]

\* settle(result, error), and executeTool going on with what runCommand
\* has settled as
settle(c, o) ==
    IF c.phase # "running" THEN c
    ELSE [c EXCEPT !.phase = "settled",
                   !.timeout = NoDeadline,
                   !.listener = FALSE,
                   !.out = o,
                   !.tool = ExecuteTool(FALSE, "run_command", GoodArgs, FALSE, o)]

\* SIGTERM without the timer of the forced kill
TerminateOnly(c) ==
    [c EXCEPT !.signals = IF c.child = "running"
                          THEN Append(@, Signal("SIGTERM", c.now)) ELSE @]

\* child.kill("SIGTERM") and the timer of the forced kill
Terminate(c) ==
    [c EXCEPT !.signals = IF c.child = "running"
                          THEN Append(@, Signal("SIGTERM", c.now)) ELSE @,
              !.kills = @ \cup {c.now + KillGraceMs}]

\* the deadlines that are armed
Deadlines(c) == c.kills \cup (IF c.timeout = NoDeadline THEN {} ELSE {c.timeout})
Least(S) == CHOOSE x \in S : \A y \in S : x <= y

\* executeTool's check of the signal, then runCommand up to the listeners
CmdStart ==
    /\ cmd.phase = "idle"
    /\ cmd' = IF cmd.aborted
              THEN [cmd EXCEPT !.phase = "settled",
                               !.out = Throw(RunCancelledMsg),
                               !.tool = ExecuteTool(TRUE, "run_command", GoodArgs, FALSE,
                                                    NoOutcome)]
              ELSE [cmd EXCEPT !.phase = "running",
                               !.child = "running",
                               !.timeout = cmd.now + DefaultTimeoutMs,
                               !.listener = TRUE]
    /\ UNCHANGED <<agentVars, providerVars, xcall, fsop, budget, duo, mcp, sub, ed, srch, oa, us, hd, fl, mdl, rc, rf, mg, th>>

\* time passes, up to the next deadline
CmdTick ==
    /\ cmd.phase # "idle"
    /\ cmd.child # "killed"
    /\ cmd.now < CmdHorizonMs
    /\ cmd.now \notin Deadlines(cmd)
    /\ cmd' = [cmd EXCEPT !.now =
                 Least({cmd.now + CmdTickMs, CmdHorizonMs}
                          \cup {d \in Deadlines(cmd) : d > cmd.now})]
    /\ UNCHANGED <<agentVars, providerVars, xcall, fsop, budget, duo, mcp, sub, ed, srch, oa, us, hd, fl, mdl, rc, rf, mg, th>>

\* the timer of timeoutMs
CmdTimeout ==
    /\ cmd.timeout = cmd.now
    /\ cmd' = settle(Terminate(cmd), Throw(TimedOutMsg))
    /\ UNCHANGED <<agentVars, providerVars, xcall, fsop, budget, duo, mcp, sub, ed, srch, oa, us, hd, fl, mdl, rc, rf, mg, th>>

\* controller.abort(): the flag, and onAbort when it is registered
CmdAbort ==
    /\ ~cmd.aborted
    /\ cmd' = IF cmd.listener
              THEN settle(Terminate([cmd EXCEPT !.aborted = TRUE]), Throw(RunCancelledMsg))
              ELSE [cmd EXCEPT !.aborted = TRUE]
    /\ UNCHANGED <<agentVars, providerVars, xcall, fsop, budget, duo, mcp, sub, ed, srch, oa, us, hd, fl, mdl, rc, rf, mg, th>>

\* a timer of the forced kill, 2 s after its SIGTERM
CmdKill ==
    /\ cmd.now \in cmd.kills
    /\ cmd' = [cmd EXCEPT !.kills = @ \ {cmd.now},
                          !.signals = IF cmd.child = "running"
                                      THEN Append(@, Signal("SIGKILL", cmd.now)) ELSE @,
                          !.child = IF @ = "running" THEN "killed" ELSE @]
    /\ UNCHANGED <<agentVars, providerVars, xcall, fsop, budget, duo, mcp, sub, ed, srch, oa, us, hd, fl, mdl, rc, rf, mg, th>>

\* the child could not be spawned: its "error" event
CmdChildError ==
    /\ cmd.phase = "running"
    /\ cmd.child = "running"
    /\ cmd.now = 0
    /\ cmd.signals = <<>>
    /\ cmd' = settle([cmd EXCEPT !.child = "exited"], Throw(<<"spawn ENOENT">>))
    /\ UNCHANGED <<agentVars, providerVars, xcall, fsop, budget, duo, mcp, sub, ed, srch, oa, us, hd, fl, mdl, rc, rf, mg, th>>

\* the child exits, of itself or by a signal: its "close" event
CmdChildClose ==
    /\ cmd.child \in {"running", "killed"}
    /\ cmd' = settle([cmd EXCEPT !.child = "exited"], Return(<<"stdout">>))
    /\ UNCHANGED <<agentVars, providerVars, xcall, fsop, budget, duo, mcp, sub, ed, srch, oa, us, hd, fl, mdl, rc, rf, mg, th>>

NextCmd ==
    \/ CmdStart
    \/ CmdTick
    \/ CmdTimeout
    \/ CmdAbort
    \/ CmdKill
    \/ CmdChildError
    \/ CmdChildClose

(***************************************************************************)
(* The caps of glob and grep.  The entries the walk has collected are      *)
(* taken in any order; an entry either matches or does not (for grep an    *)
(* entry is a line of a file that is read).  `total` and `others` are how  *)
(* many entries of each kind there are; the files grep counts are not      *)
(* followed.                                                               *)
(***************************************************************************)
SearchTools == {"glob", "grep"}
CapOf(tool) == IF tool = "glob" THEN MAX_GLOB_RESULTS ELSE MAX_GREP_MATCHES
\* how many matching entries there are: a few, or about as many as the cap
Totals(tool) ==
    (0..ExtraEntries)
        \cup {n \in 0..(CapOf(tool) + ExtraEntries) : n >= CapOf(tool) - ExtraEntries}
NoText == [lines |-> 0, last |-> "none"]
IdleSearch ==
    [phase |-> "idle", tool |-> "glob", total |-> 0, others |-> 0,
     seen |-> 0, passed |-> 0, kept |-> 0, truncated |-> FALSE, text |-> NoText]

\* truncated only when the matches are more than the cap
TruncatedAbove(kept, cap) == kept > cap
\* truncated: matches.length >= MAX
Truncated(kept, cap) == kept >= cap

\* the text executeTool makes of the result
SearchText(tool, kept, truncated) ==
    IF kept = 0 /\ (tool = "grep" \/ ~truncated)
    THEN [lines |-> 1, last |-> "nothing matched"]
    ELSE IF truncated THEN [lines |-> kept + 1, last |-> "truncated"]
    ELSE IF tool = "grep" THEN [lines |-> kept + 1, last |-> "summary"]
    ELSE [lines |-> kept, last |-> "match"]

\* the entries under the search path
SearchChoose ==
    /\ srch.phase = "idle"
    /\ \E tool \in SearchTools :
       \E total \in Totals(tool), others \in 0..MaxOtherEntries :
          srch' = [srch EXCEPT !.phase = "loop", !.tool = tool,
                               !.total = total, !.others = others]
    /\ UNCHANGED <<agentVars, providerVars, xcall, fsop, budget, duo, mcp, sub, ed, cmd, oa, us, hd, fl, mdl, rc, rf, mg, th>>

\* one iteration of the loop over the entries: the next entry matches and
\* is pushed, or does not match
SearchEntry ==
    /\ srch.phase = "loop"
    /\ srch.kept < CapOf(srch.tool)
    /\ \/ /\ srch.seen < srch.total
          /\ srch' = [srch EXCEPT !.seen = @ + 1, !.kept = @ + 1]
       \/ /\ srch.passed < srch.others
          /\ srch' = [srch EXCEPT !.passed = @ + 1]
    /\ UNCHANGED <<agentVars, providerVars, xcall, fsop, budget, duo, mcp, sub, ed, cmd, oa, us, hd, fl, mdl, rc, rf, mg, th>>

\* the loop is left, by its break or at its end; the result and its text
SearchReturn ==
    /\ srch.phase = "loop"
    /\ \/ srch.kept >= CapOf(srch.tool)
       \/ srch.seen = srch.total /\ srch.passed = srch.others
    /\ LET t == Truncated(srch.kept, CapOf(srch.tool)) IN
       srch' = [srch EXCEPT !.phase = "done", !.truncated = t,
                            !.text = SearchText(srch.tool, srch.kept, t)]
    /\ UNCHANGED <<agentVars, providerVars, xcall, fsop, budget, duo, mcp, sub, ed, cmd, oa, us, hd, fl, mdl, rc, rf, mg, th>>

NextSearch == SearchChoose \/ SearchEntry \/ SearchReturn

(***************************************************************************)
(* The start of a run: runAgent finds the enabled provider and its         *)
(* credential, the loop of the provider resolves an OAuth credential with  *)
(* getValidOAuthToken, and only then the loop sends requests and executes  *)
(* tools.  Times are Date.now() in milliseconds.                           *)
(***************************************************************************)
OAuthProviders == {"anthropic", "codex"}
\* what the credential store holds for the provider
CredentialKinds == {"none", "apiKey", "oauth", "invalidOAuth"}
\* Date.now() when getValidOAuthToken compares
OAuthNows == 0..OAuthSlackMs
\* expires of the stored record: long ago, or about the margin from now
OAuthExpiries ==
    (0..OAuthSlackMs)
        \cup {t \in 0..(OAuthMarginMs + 2 * OAuthSlackMs) : t >= OAuthMarginMs - OAuthSlackMs}
\* expires_in of the token response, in seconds; 0 stands for a response
\* without expires_in
ExpiresIns == {0, 10, DefaultExpiresInS}
NoRecord == [access |-> "", refresh |-> "", expires |-> 0]
StoredRecord(expires) == [access |-> "stored access", refresh |-> "stored refresh", expires |-> expires]
InvalidOAuthMsg == <<"Invalid OAuth credential">>
RefreshFailedMsg == <<"token refresh failed">>
IdleOAuth ==
    [phase |-> "idle", provider |-> "none", cred |-> "none", now |-> 0,
     stored |-> NoRecord, store |-> NoRecord, refresh |-> "none", token |-> "",
     requests |-> 0, tools |-> 0, out |-> NoOutcome]

\* refresh only once the token has expired
NeedsRefreshExpired(expires, now) == expires < now
\* oauth.expires < Date.now() + 30_000
NeedsRefresh(expires, now) == expires < now + OAuthMarginMs

\* the refresh has failed and the stored token is used all the same
RefreshFailureIgnored(a) ==
    [a EXCEPT !.phase = "ready", !.refresh = "failed", !.token = a.stored.access]
\* if (!response.ok) throw: the error leaves getValidOAuthToken and the run
RefreshFailure(a) ==
    [a EXCEPT !.phase = "ended", !.refresh = "failed", !.out = Throw(RefreshFailedMsg)]

\* refreshAnthropicToken / refreshCodexToken after a response that is ok, at
\* time `at`: the new record is stored, its access token returned
Refreshed(a, at, expiresIn) ==
    LET data == [access |-> "new access", refresh |-> "new refresh",
                 expires |-> at + (IF expiresIn = 0 THEN DefaultExpiresInS ELSE expiresIn) * 1000] IN
    [a EXCEPT !.phase = "ready", !.refresh = "ok", !.store = data, !.token = data.access]

\* runAgent, and the loop of the provider up to its first await that is not
\* the credential store
OaStart ==
    /\ oa.phase = "idle"
    /\ \E p \in OAuthProviders \cup {"none"}, c \in CredentialKinds,
          now \in OAuthNows, expires \in OAuthExpiries :
       LET stored == IF c = "oauth" THEN StoredRecord(expires) ELSE NoRecord
           a == [oa EXCEPT !.provider = p, !.cred = IF p = "none" THEN "none" ELSE c,
                           !.now = now, !.stored = IF p = "none" THEN NoRecord ELSE stored,
                           !.store = IF p = "none" THEN NoRecord ELSE stored] IN
       oa' = IF p = "none"
             THEN [a EXCEPT !.phase = "ended", !.out = Return(<<"No provider enabled.">>)]
             ELSE IF c = "none"
             THEN [a EXCEPT !.phase = "ended",
                            !.out = Return(<<"credential is not configured.">>)]
             ELSE IF c = "apiKey"
             THEN [a EXCEPT !.phase = "ready", !.token = "api key"]
             ELSE IF c = "invalidOAuth"
             THEN [a EXCEPT !.phase = "ended", !.out = Throw(InvalidOAuthMsg)]
             ELSE IF NeedsRefresh(expires, now)
             THEN [a EXCEPT !.phase = "refresh", !.refresh = "pending"]
             ELSE [a EXCEPT !.phase = "ready", !.token = stored.access]
    /\ UNCHANGED <<agentVars, providerVars, xcall, fsop, budget, duo, mcp, sub, ed, cmd, srch, us, hd, fl, mdl, rc, rf, mg, th>>

\* the token endpoint answers the refresh_token grant
OaRefreshed ==
    /\ oa.phase = "refresh"
    /\ \/ oa' = RefreshFailure(oa)
       \/ \E delay \in 0..OAuthSlackMs, expiresIn \in ExpiresIns :
             /\ oa.provider = "anthropic" => expiresIn # 0
             /\ oa' = Refreshed(oa, oa.now + delay, expiresIn)
    /\ UNCHANGED <<agentVars, providerVars, xcall, fsop, budget, duo, mcp, sub, ed, cmd, srch, us, hd, fl, mdl, rc, rf, mg, th>>

\* the loop sends a request to the provider
OaRequest ==
    /\ oa.phase \in {"ready", "loop"}
    /\ oa.requests < MaxOAuthSteps
    /\ oa.requests = oa.tools
    /\ oa' = [oa EXCEPT !.phase = "loop", !.requests = @ + 1]
    /\ UNCHANGED <<agentVars, providerVars, xcall, fsop, budget, duo, mcp, sub, ed, cmd, srch, us, hd, fl, mdl, rc, rf, mg, th>>

\* the response has a tool call, which is executed
OaTool ==
    /\ oa.phase = "loop"
    /\ oa.tools < oa.requests
    /\ oa' = [oa EXCEPT !.tools = @ + 1]
    /\ UNCHANGED <<agentVars, providerVars, xcall, fsop, budget, duo, mcp, sub, ed, cmd, srch, us, hd, fl, mdl, rc, rf, mg, th>>

\* the response has no tool call, or the budget is used up
OaFinish ==
    /\ oa.phase = "loop"
    /\ oa' = [oa EXCEPT !.phase = "ended", !.out = Return(<<"finalText">>)]
    /\ UNCHANGED <<agentVars, providerVars, xcall, fsop, budget, duo, mcp, sub, ed, cmd, srch, us, hd, fl, mdl, rc, rf, mg, th>>

NextOAuth == OaStart \/ OaRefreshed \/ OaRequest \/ OaTool \/ OaFinish

(***************************************************************************)
(* The token counters of runAnthropicAgent: the usage that the events of a *)
(* step's stream report, and the totals of the run.  A usage or a count    *)
(* that an event leaves out is Absent.                                     *)
(***************************************************************************)
Absent == 0 - 1
TokenCounts == 0..MaxTokens
Reported == TokenCounts \cup {Absent}
\* usage.input_tokens ?? 0
OrZero(n) == IF n = Absent THEN 0 ELSE n
IdleUsage ==
    [phase |-> "loop", step |-> 0, stepInputTokens |-> 0, stepOutputTokens |-> 0,
     startOut |-> 0, deltaOut |-> 0, deltas |-> 0,
     totalInputTokens |-> 0, totalOutputTokens |-> 0]

\* message_start: both counters of the step are set from message.usage
onMessageStart(u, hasUsage, inTok, outTok) ==
    IF hasUsage
    THEN [u EXCEPT !.stepInputTokens = OrZero(inTok), !.stepOutputTokens = OrZero(outTok)]
    ELSE u
\* message_delta: if (usage.output_tokens) stepOutputTokens = usage.output_tokens
onMessageDelta(u, hasUsage, outTok) ==
    IF hasUsage /\ outTok # Absent /\ outTok # 0
    THEN [u EXCEPT !.stepOutputTokens = outTok]
    ELSE u

\* a step begins: its counters are declared 0 and the stream is opened
UsStepBegin ==
    /\ us.phase = "loop"
    /\ us.step < MaxUsageSteps
    /\ us' = [us EXCEPT !.phase = "opened", !.step = @ + 1, !.stepInputTokens = 0,
                        !.stepOutputTokens = 0, !.startOut = 0, !.deltaOut = 0, !.deltas = 0]
    /\ UNCHANGED <<agentVars, providerVars, xcall, fsop, budget, duo, mcp, sub, ed, cmd, srch, oa, hd, fl, mdl, rc, rf, mg, th>>

\* the message_start event of the stream
UsMessageStart ==
    /\ us.phase = "opened"
    /\ \E hasUsage \in BOOLEAN, inTok \in Reported, outTok \in Reported :
          /\ ~hasUsage => inTok = Absent /\ outTok = Absent
          /\ us' = [onMessageStart(us, hasUsage, inTok, outTok)
                       EXCEPT !.phase = "streaming", !.startOut = OrZero(outTok)]
    /\ UNCHANGED <<agentVars, providerVars, xcall, fsop, budget, duo, mcp, sub, ed, cmd, srch, oa, hd, fl, mdl, rc, rf, mg, th>>

\* a message_delta event of the stream
UsMessageDelta ==
    /\ us.phase = "streaming"
    /\ us.deltas < MaxDeltas
    /\ \E hasUsage \in BOOLEAN, outTok \in Reported :
          /\ ~hasUsage => outTok = Absent
          /\ us' = [onMessageDelta(us, hasUsage, outTok)
                       EXCEPT !.deltas = @ + 1, !.deltaOut = @ + OrZero(outTok)]
    /\ UNCHANGED <<agentVars, providerVars, xcall, fsop, budget, duo, mcp, sub, ed, cmd, srch, oa, hd, fl, mdl, rc, rf, mg, th>>

\* the stream has ended: the counters of the step are added to the totals,
\* and the run goes on with the next step or returns
UsStreamEnd ==
    /\ us.phase = "streaming"
    /\ \E more \in BOOLEAN :
          us' = [us EXCEPT !.phase = IF more /\ us.step < MaxUsageSteps THEN "loop" ELSE "returned",
                           !.totalInputTokens = @ + us.stepInputTokens,
                           !.totalOutputTokens = @ + us.stepOutputTokens]
    /\ UNCHANGED <<agentVars, providerVars, xcall, fsop, budget, duo, mcp, sub, ed, cmd, srch, oa, hd, fl, mdl, rc, rf, mg, th>>

NextUsage == UsStepBegin \/ UsMessageStart \/ UsMessageDelta \/ UsStreamEnd

(***************************************************************************)
(* The handler of message:send around one run: the callbacks of the run    *)
(* store messages in the thread and emit them, run:cancel aborts the       *)
(* controller, and the handler stores and emits the last message and the   *)
(* terminal status when runAgent settles.  The run is taken by what it     *)
(* does to the handler: its callbacks and the way it settles.              *)
(***************************************************************************)
RunTexts == {<<"a">>, <<"b">>}
TransportErrorMsg == <<"Connection error.">>
\* the errors runAgent rejects with: the first two only once the signal is
\* aborted
RunErrors(isAborted) ==
    {TransportErrorMsg} \cup (IF isAborted THEN {RunCancelledMsg, SdkAbortMsg} ELSE {})
IdleSend ==
    [phase |-> "running", aborted |-> FALSE, thread |-> <<>>, emitted |-> 0,
     statuses |-> <<>>, outcome |-> NoOutcome]

\* Store.appendMessage: a message with a fresh id at the end of the thread
appendMessage(thread, role, content, isError, pending) ==
    Append(thread, [id |-> Len(thread) + 1, role |-> role, content |-> content,
                    isError |-> isError, pending |-> pending])
\* storeAndEmit: the message is appended and the last message of the thread
\* is emitted as agent:message
storeAndEmit(h, role, content, isError, pending) ==
    [h EXCEPT !.thread = appendMessage(@, role, content, isError, pending),
              !.emitted = Len(h.thread) + 1]
\* const status = detail === "Run cancelled" ? "cancelled" : "error"
StatusOf(detail) == IF detail = RunCancelledMsg THEN "cancelled" ELSE "error"
\* the catch block of the handler
FailedRun(h, detail) ==
    [storeAndEmit(h, "assistant", <<"Agent failed: ">> \o detail, TRUE, FALSE)
        EXCEPT !.phase = "settled", !.statuses = Append(@, StatusOf(detail)),
               !.outcome = Throw(detail)]

\* callbacks.onText
SendOnText ==
    /\ hd.phase = "running"
    /\ Len(hd.thread) < MaxThread
    /\ \E text \in RunTexts : hd' = storeAndEmit(hd, "assistant", text, FALSE, FALSE)
    /\ UNCHANGED <<agentVars, providerVars, xcall, fsop, budget, duo, mcp, sub, ed, cmd, srch, oa, us, fl, mdl, rc, rf, mg, th>>

\* callbacks.onToolStart: a pending tool message
SendOnToolStart ==
    /\ hd.phase = "running"
    /\ Len(hd.thread) < MaxThread
    /\ hd' = storeAndEmit(hd, "tool", <<>>, FALSE, TRUE)
    /\ UNCHANGED <<agentVars, providerVars, xcall, fsop, budget, duo, mcp, sub, ed, cmd, srch, oa, us, fl, mdl, rc, rf, mg, th>>

\* callbacks.onToolEnd: store.updateMessage(pendingId, ...) and agent:message
SendOnToolEnd ==
    /\ hd.phase = "running"
    /\ \E i \in DOMAIN hd.thread, text \in RunTexts :
          /\ hd.thread[i].pending
          /\ hd' = [hd EXCEPT !.thread[i].content = text, !.thread[i].pending = FALSE,
                              !.emitted = i]
    /\ UNCHANGED <<agentVars, providerVars, xcall, fsop, budget, duo, mcp, sub, ed, cmd, srch, oa, us, fl, mdl, rc, rf, mg, th>>

\* run:cancel: controller.abort()
SendCancel ==
    /\ hd.phase = "running"
    /\ ~hd.aborted
    /\ hd' = [hd EXCEPT !.aborted = TRUE]
    /\ UNCHANGED <<agentVars, providerVars, xcall, fsop, budget, duo, mcp, sub, ed, cmd, srch, oa, us, fl, mdl, rc, rf, mg, th>>

\* runAgent resolves: the text of the result is stored, the status is idle
SendResolved ==
    /\ hd.phase = "running"
    /\ \E text \in RunTexts :
          hd' = [storeAndEmit(hd, "assistant", text, FALSE, FALSE)
                    EXCEPT !.phase = "settled", !.statuses = Append(@, "idle"),
                           !.outcome = Return(text)]
    /\ UNCHANGED <<agentVars, providerVars, xcall, fsop, budget, duo, mcp, sub, ed, cmd, srch, oa, us, fl, mdl, rc, rf, mg, th>>

\* runAgent rejects
SendRejected ==
    /\ hd.phase = "running"
    /\ \E detail \in RunErrors(hd.aborted) : hd' = FailedRun(hd, detail)
    /\ UNCHANGED <<agentVars, providerVars, xcall, fsop, budget, duo, mcp, sub, ed, cmd, srch, oa, us, fl, mdl, rc, rf, mg, th>>

NextSend ==
    \/ SendOnText \/ SendOnToolStart \/ SendOnToolEnd
    \/ SendCancel \/ SendResolved \/ SendRejected

(***************************************************************************)
(* writeTextFile and readTextFile on a file system.  A file system maps    *)
(* the absolute paths that exist to a directory or to a file with its      *)
(* bytes.  A content is a string of UTF-16 code units followed by `pad`    *)
(* more characters "a"; a file holds the UTF-8 bytes of the units and the  *)
(* same number of bytes "61" after them.                                   *)
(***************************************************************************)
\* the code units: a letter, a high surrogate, a low surrogate, and U+FFFD
CodeUnits == {"a", "hi", "lo"}
Replacement == "fffd"
UnitStrings == SeqsUpTo(CodeUnits, MaxUnits)
FileContents ==
    [units : UnitStrings, pad : {0}]
        \cup [units : {<<"a">>}, pad : {MAX_FILE_BYTES - 2, MAX_FILE_BYTES - 1, MAX_FILE_BYTES}]
\* the relative paths written: names and "." only, below the root "/r/p"
FileTargets == SeqsUpTo({<<"p">>, <<"f">>, Here}, MaxFileSegs)
FileRoot == << <<"r">>, <<"p">> >>

\* Buffer.from(string, "utf8"): a surrogate pair is one character of four
\* bytes, a surrogate without its partner is written as U+FFFD
RECURSIVE Utf8Encode(_)
Utf8Encode(units) ==
    IF units = <<>> THEN <<>>
    ELSE IF Head(units) = "hi" /\ Len(units) >= 2 /\ units[2] = "lo"
    THEN <<"f0", "9f", "98", "80">> \o Utf8Encode(Tail(Tail(units)))
    ELSE IF Head(units) = "a" THEN <<"61">> \o Utf8Encode(Tail(units))
    ELSE <<"ef", "bf", "bd">> \o Utf8Encode(Tail(units))
\* buffer.toString("utf8") of bytes that Utf8Encode has made
RECURSIVE Utf8Decode(_)
Utf8Decode(bytes) ==
    IF bytes = <<>> THEN <<>>
    ELSE IF Head(bytes) = "61" THEN <<"a">> \o Utf8Decode(Tail(bytes))
    ELSE IF Head(bytes) = "f0" THEN <<"hi", "lo">> \o Utf8Decode(SubSeq(bytes, 5, Len(bytes)))
    ELSE <<Replacement>> \o Utf8Decode(SubSeq(bytes, 4, Len(bytes)))
\* Buffer.byteLength(content, "utf8")
ByteLength(content) == Len(Utf8Encode(content.units)) + content.pad

Dir == [kind |-> "dir", bytes |-> <<>>, pad |-> 0]
File(bytes, pad) == [kind |-> "file", bytes |-> bytes, pad |-> pad]
Prefixes(path) == {SubSeq(path, 1, n) : n \in 0..Len(path)}
\* the directories down to the project root, and what the project holds
\* before the first call: nothing, a file p, a directory p, a directory f
Layouts(root) ==
    LET base == [q \in Prefixes(root) |-> Dir] IN
    {base,
     (Append(root, <<"p">>) :> File(<<"61">>, 0)) @@ base,
     (Append(root, <<"p">>) :> Dir) @@ base,
     (Append(root, <<"f">>) :> Dir) @@ base}
IsFile(fs, path) == path \in DOMAIN fs /\ fs[path].kind = "file"
IsDir(fs, path) == path \in DOMAIN fs /\ fs[path].kind = "dir"

\* the bytes of a file after a write that finds it with bytes `old`
WrittenBytesAppended(old, new) == old \o new
\* fs.writeFileSync: flag "w", the file is truncated
WrittenBytes(old, new) == new

\* fs.mkdirSync(dir, { recursive: true })
mkdirRecursive(fs, dir) ==
    IF \E q \in Prefixes(dir) : IsFile(fs, q)
    THEN [out |-> Throw(<<"ENOTDIR">>), fs |-> fs]
    ELSE [out |-> Return(<<>>),
          fs |-> [q \in DOMAIN fs \cup Prefixes(dir) |-> IF q \in DOMAIN fs THEN fs[q] ELSE Dir]]
\* fs.writeFileSync(resolved, content, "utf8")
writeFileSync(fs, path, content) ==
    IF IsDir(fs, path) THEN [out |-> Throw(<<"EISDIR">>), fs |-> fs]
    ELSE LET old == IF IsFile(fs, path) THEN fs[path].bytes ELSE <<>>
             node == File(WrittenBytes(old, Utf8Encode(content.units)), content.pad) IN
         [out |-> Return(<<"ok">>),
          fs |-> [q \in DOMAIN fs \cup {path} |-> IF q = path THEN node ELSE fs[q]]]

fsWriteTextFile(fs, projectRoot, relativePath, content) ==
    LET r == resolveInsideProject(projectRoot, relativePath) IN
    IF ~r.ok THEN [out |-> Throw(PathEscapeMsg), fs |-> fs]
    ELSE LET made == mkdirRecursive(fs, Dirname(r.path)) IN
         IF made.out.kind = "throw" THEN made
         ELSE writeFileSync(made.fs, r.path, content)

fsReadTextFile(fs, projectRoot, relativePath) ==
    LET r == resolveInsideProject(projectRoot, relativePath) IN
    IF ~r.ok THEN [out |-> Throw(PathEscapeMsg), pad |-> 0]
    ELSE IF r.path \notin DOMAIN fs THEN [out |-> Throw(<<"ENOENT">>), pad |-> 0]
    ELSE IF fs[r.path].kind # "file" THEN [out |-> Throw(<<"Target is not a file">>), pad |-> 0]
    ELSE IF Len(fs[r.path].bytes) + fs[r.path].pad > MAX_FILE_BYTES
    THEN [out |-> Throw(<<"File too large">>), pad |-> 0]
    ELSE [out |-> Return(Utf8Decode(fs[r.path].bytes)), pad |-> fs[r.path].pad]

NoFiles == << >>
NoFileContent == [units |-> <<>>, pad |-> 0]
IdleFile ==
    [phase |-> "idle", root |-> <<>>, layout |-> NoFiles, fs |-> NoFiles, target |-> <<>>,
     content |-> NoFileContent, writes |-> 0, wrote |-> NoOutcome, read |-> NoOutcome,
     readPad |-> 0]

\* a project root, and what it holds
FlProject ==
    /\ fl.phase = "idle"
    /\ \E layout \in Layouts(FileRoot) :
          fl' = [fl EXCEPT !.phase = "ready", !.root = FileRoot, !.layout = layout,
                           !.fs = layout]
    /\ UNCHANGED <<agentVars, providerVars, xcall, fsop, budget, duo, mcp, sub, ed, cmd, srch, oa, us, hd, mdl, rc, rf, mg, th>>

\* writeTextFile; a later call writes the same path again
FlWrite ==
    /\ fl.phase \in {"ready", "written"}
    /\ fl.writes < MaxWrites
    /\ \E target \in FileTargets, content \in FileContents :
          /\ fl.writes > 0 => target = fl.target
          /\ LET w == fsWriteTextFile(fl.fs, fl.root, target, content) IN
             fl' = [fl EXCEPT !.phase = "written", !.target = target, !.content = content,
                              !.writes = @ + 1, !.wrote = w.out, !.fs = w.fs]
    /\ UNCHANGED <<agentVars, providerVars, xcall, fsop, budget, duo, mcp, sub, ed, cmd, srch, oa, us, hd, mdl, rc, rf, mg, th>>

\* readTextFile of the path that was written
FlRead ==
    /\ fl.phase = "written"
    /\ LET r == fsReadTextFile(fl.fs, fl.root, fl.target) IN
       fl' = [fl EXCEPT !.phase = "read", !.read = r.out, !.readPad = r.pad]
    /\ UNCHANGED <<agentVars, providerVars, xcall, fsop, budget, duo, mcp, sub, ed, cmd, srch, oa, us, hd, mdl, rc, rf, mg, th>>

NextFile == FlProject \/ FlWrite \/ FlRead

(***************************************************************************)
(* The model catalogue and the choice of the model for thread titles.      *)
(***************************************************************************)
ALL_MODELS ==
    << [id |-> "claude-opus-4-6", provider |-> "anthropic"],
       [id |-> "claude-sonnet-4-5", provider |-> "anthropic"],
       [id |-> "claude-haiku-4-5", provider |-> "anthropic"],
       [id |-> "gpt-5.3-codex", provider |-> "codex"],
       [id |-> "gpt-5.2-codex", provider |-> "codex"],
       [id |-> "gpt-5.1-codex-mini", provider |-> "codex"] >>
\* the list with the largest model first
TITLE_MODEL_PRIORITY_Reversed ==
    <<"claude-opus-4-6", "gpt-5.3-codex", "gpt-5.2-codex", "claude-sonnet-4-5",
      "gpt-5.1-codex-mini", "claude-haiku-4-5">>
TITLE_MODEL_PRIORITY ==
    <<"claude-haiku-4-5", "gpt-5.1-codex-mini", "claude-sonnet-4-5", "gpt-5.2-codex",
      "gpt-5.3-codex", "claude-opus-4-6">>
Null == "null"
\* the strings a set of authorized provider ids can hold
ProviderIdStrings == {"anthropic", "codex", "openai", "google", "mistral", ""}

\* ALL_MODELS.find((m) => m.id === id)?.provider ?? null
providerForModelId(id) ==
    LET found == {i \in DOMAIN ALL_MODELS : ALL_MODELS[i].id = id} IN
    IF found = {} THEN Null
    ELSE ALL_MODELS[CHOOSE i \in found : \A j \in found : i <= j].provider

\* the first id of the priority list whose catalogue entry has an authorized
\* provider
smallestAvailableModelId(authorizedProviderIds) ==
    LET usable == {k \in DOMAIN TITLE_MODEL_PRIORITY :
                      LET p == providerForModelId(TITLE_MODEL_PRIORITY[k]) IN
                      p # Null /\ p \in authorizedProviderIds} IN
    IF usable = {} THEN Null
    ELSE TITLE_MODEL_PRIORITY[CHOOSE k \in usable : \A j \in usable : k <= j]

IdleModels == [phase |-> "idle", authorized |-> {}, modelId |-> "", providerId |-> ""]

\* generateTitle: the providers whose credential is set
MsAuthorized ==
    /\ mdl.phase = "idle"
    /\ \E authed \in SUBSET ProviderIdStrings :
          mdl' = [mdl EXCEPT !.phase = "authorized", !.authorized = authed]
    /\ UNCHANGED <<agentVars, providerVars, xcall, fsop, budget, duo, mcp, sub, ed, cmd, srch, oa, us, hd, fl, rc, rf, mg, th>>

\* const modelId = smallestAvailableModelId(authedProviders)
MsSmallest ==
    /\ mdl.phase = "authorized"
    /\ mdl' = [mdl EXCEPT !.phase = "chosen",
                        !.modelId = smallestAvailableModelId(mdl.authorized)]
    /\ UNCHANGED <<agentVars, providerVars, xcall, fsop, budget, duo, mcp, sub, ed, cmd, srch, oa, us, hd, fl, rc, rf, mg, th>>

\* const providerId = providerForModelId(modelId)
MsProvider ==
    /\ mdl.phase = "chosen"
    /\ mdl.modelId # Null
    /\ mdl' = [mdl EXCEPT !.phase = "resolved", !.providerId = providerForModelId(mdl.modelId)]
    /\ UNCHANGED <<agentVars, providerVars, xcall, fsop, budget, duo, mcp, sub, ed, cmd, srch, oa, us, hd, fl, rc, rf, mg, th>>

NextModels == MsAuthorized \/ MsSmallest \/ MsProvider

(***************************************************************************)
(* The runs of one thread and runControllers, the map from thread id to    *)
(* the AbortController of its run.  A run and its controller are numbered  *)
(* in the order of the message:send calls that started them.               *)
(***************************************************************************)
NoController == 0
RunIds == 1..MaxRuns
ActiveRunMsg == <<"A run is already active for this thread">>
IdleRuns ==
    [registered |-> NoController, started |-> 0, running |-> {}, aborted |-> {},
     last |-> NoOutcome]

\* message:send: rejected when the thread has a controller; or else a new
\* controller is registered and the run starts in the background
RcSend ==
    /\ rc' = IF rc.registered # NoController
             THEN [rc EXCEPT !.last = Throw(ActiveRunMsg)]
             ELSE IF rc.started < MaxRuns
             THEN [rc EXCEPT !.registered = rc.started + 1, !.started = @ + 1,
                             !.running = @ \cup {rc.started + 1},
                             !.last = Return(<<"immediateState">>)]
             ELSE rc
    /\ UNCHANGED <<agentVars, providerVars, xcall, fsop, budget, duo, mcp, sub, ed, cmd, srch, oa, us, hd, fl, mdl, rf, mg, th>>

\* run:cancel: controller?.abort(); runControllers.delete(thread)
RcCancel ==
    /\ rc' = [rc EXCEPT !.aborted = IF rc.registered # NoController
                                    THEN @ \cup {rc.registered} ELSE @,
                        !.registered = NoController,
                        !.last = Return(<<"cancel">>)]
    /\ UNCHANGED <<agentVars, providerVars, xcall, fsop, budget, duo, mcp, sub, ed, cmd, srch, oa, us, hd, fl, mdl, rf, mg, th>>

\* runAgent of a run settles: finally { runControllers.delete(threadId) }
RcSettled ==
    /\ \E run \in rc.running :
          rc' = [rc EXCEPT !.running = @ \ {run}, !.registered = NoController,
                           !.last = Return(<<"settled">>)]
    /\ UNCHANGED <<agentVars, providerVars, xcall, fsop, budget, duo, mcp, sub, ed, cmd, srch, oa, us, hd, fl, mdl, rf, mg, th>>

NextRuns == RcSend \/ RcCancel \/ RcSettled

(***************************************************************************)
(* Credential resolutions of one provider that run at the same time: the   *)
(* run of the agent, its sub-agents and the generation of a thread title   *)
(* each read the stored OAuth record and refresh it when it expires within *)
(* the margin.  Tokens are numbered: the stored record has the tokens 0,   *)
(* the k-th answer of the token endpoint the tokens k.  The clock stands   *)
(* at 0 while the resolutions run.                                         *)
(***************************************************************************)
Resolvers == 1..MaxResolvers
OAuthRecord(n, expires) == [access |-> n, refresh |-> n, expires |-> expires]
NoResolver == [pc |-> "idle", oauth |-> OAuthRecord(0, 0), access |-> 0 - 1]
IdleRefresh ==
    [store |-> OAuthRecord(0, 0), res |-> [i \in Resolvers |-> NoResolver],
     submitted |-> <<>>, minted |-> 0, lastIssued |-> OAuthRecord(0, 0)]

\* the record in the credential store when the first resolution starts:
\* expired, or good for an hour
RfStored ==
    /\ \A i \in Resolvers : rf.res[i].pc = "idle"
    /\ rf.minted = 0
    /\ rf.store.expires = 0
    /\ rf' = [rf EXCEPT !.store = OAuthRecord(0, DefaultExpiresInS * 1000)]
    /\ UNCHANGED <<agentVars, providerVars, xcall, fsop, budget, duo, mcp, sub, ed, cmd, srch, oa, us, hd, fl, mdl, rc, mg, th>>

\* getCredential and parseOAuthCredential: the resolver has its copy of the
\* stored record
RfRead ==
    /\ \E i \in Resolvers :
          /\ rf.res[i].pc = "idle"
          /\ rf' = [rf EXCEPT !.res[i].pc = "parsed", !.res[i].oauth = rf.store]
    /\ UNCHANGED <<agentVars, providerVars, xcall, fsop, budget, duo, mcp, sub, ed, cmd, srch, oa, us, hd, fl, mdl, rc, mg, th>>

\* the comparison with the clock: the access token of the copy is used, or
\* the refresh token of the copy is posted to the token endpoint
RfResolve ==
    /\ \E i \in Resolvers :
          /\ rf.res[i].pc = "parsed"
          /\ rf' = IF NeedsRefresh(rf.res[i].oauth.expires, 0)
                   THEN [rf EXCEPT !.res[i].pc = "refreshing",
                                   !.submitted = Append(@, [by |-> i,
                                                            token |-> rf.res[i].oauth.refresh])]
                   ELSE [rf EXCEPT !.res[i].pc = "done",
                                   !.res[i].access = rf.res[i].oauth.access]
    /\ UNCHANGED <<agentVars, providerVars, xcall, fsop, budget, duo, mcp, sub, ed, cmd, srch, oa, us, hd, fl, mdl, rc, mg, th>>

\* the token endpoint answers a refresh with new tokens, which are stored
\* and returned
RfRefreshed ==
    /\ \E i \in Resolvers :
          /\ rf.res[i].pc = "refreshing"
          /\ LET data == OAuthRecord(rf.minted + 1, DefaultExpiresInS * 1000) IN
             rf' = [rf EXCEPT !.res[i].pc = "done", !.res[i].access = data.access,
                              !.minted = @ + 1, !.store = data,
                              !.lastIssued =
                                  IF rf.submitted[Len(rf.submitted)].by = i THEN data ELSE @]
    /\ UNCHANGED <<agentVars, providerVars, xcall, fsop, budget, duo, mcp, sub, ed, cmd, srch, oa, us, hd, fl, mdl, rc, mg, th>>

\* the token endpoint refuses a refresh: the resolution throws
RfRefused ==
    /\ \E i \in Resolvers :
          /\ rf.res[i].pc = "refreshing"
          /\ rf' = [rf EXCEPT !.res[i].pc = "failed"]
    /\ UNCHANGED <<agentVars, providerVars, xcall, fsop, budget, duo, mcp, sub, ed, cmd, srch, oa, us, hd, fl, mdl, rc, mg, th>>

NextRefresh == RfStored \/ RfRead \/ RfResolve \/ RfRefreshed \/ RfRefused

(***************************************************************************)
(* McpManager: the clients it makes for its server ids, their              *)
(* subprocesses, and the map `clients`.  Clients are numbered in the order *)
(* of the connectServer calls that made them.                              *)
(***************************************************************************)
ServerIds == {"s1", "s2"}
ClientIds == 1..MaxClients
NoClient == 0
UnmadeClient == [sid |-> "", st |-> "unmade", proc |-> "none"]
IdleManager ==
    [clients |-> [s \in ServerIds |-> NoClient],
     made |-> [c \in ClientIds |-> UnmadeClient], next |-> 1]

\* McpClient.disconnect as the manager sees it: the subprocess is killed
clientDisconnect(c) ==
    [c EXCEPT !.st = IF @ = "connected" THEN "disconnected" ELSE @,
              !.proc = IF @ = "alive" THEN "killed" ELSE @]
\* the client registered for a server id, if there is one, is disconnected
DisconnectRegistered(g, sid) ==
    IF g.clients[sid] = NoClient THEN g
    ELSE [g EXCEPT !.made[g.clients[sid]] = clientDisconnect(@)]

\* connectServer up to its await: the registered client is disconnected, a
\* new client spawns its subprocess and sends initialize
MgConnectServer ==
    /\ mg.next <= MaxClients
    /\ \E sid \in ServerIds :
          mg' = [DisconnectRegistered(mg, sid)
                    EXCEPT !.made[mg.next] = [sid |-> sid, st |-> "connecting", proc |-> "alive"],
                           !.next = @ + 1]
    /\ UNCHANGED <<agentVars, providerVars, xcall, fsop, budget, duo, mcp, sub, ed, cmd, srch, oa, us, hd, fl, mdl, rc, rf, th>>

\* connect() of a client resolves: this.clients.set(config.id, client)
MgConnected ==
    /\ \E c \in ClientIds :
          /\ mg.made[c].st = "connecting"
          /\ mg.made[c].proc = "alive"
          /\ mg' = [mg EXCEPT !.made[c].st = "connected", !.clients[mg.made[c].sid] = c]
    /\ UNCHANGED <<agentVars, providerVars, xcall, fsop, budget, duo, mcp, sub, ed, cmd, srch, oa, us, hd, fl, mdl, rc, rf, th>>

\* connect() of a client rejects (error answer, timeout, or the subprocess
\* has exited): its catch block disconnects, connectServer throws
MgConnectFailed ==
    /\ \E c \in ClientIds, exited \in BOOLEAN :
          /\ mg.made[c].st = "connecting"
          /\ mg' = [mg EXCEPT !.made[c].st = "failed",
                              !.made[c].proc = IF exited THEN "exited" ELSE "killed"]
    /\ UNCHANGED <<agentVars, providerVars, xcall, fsop, budget, duo, mcp, sub, ed, cmd, srch, oa, us, hd, fl, mdl, rc, rf, th>>

\* the subprocess of a connected client exits on its own
MgChildClose ==
    /\ \E c \in ClientIds :
          /\ mg.made[c].st = "connected"
          /\ mg.made[c].proc = "alive"
          /\ mg' = [mg EXCEPT !.made[c].st = "disconnected", !.made[c].proc = "exited"]
    /\ UNCHANGED <<agentVars, providerVars, xcall, fsop, budget, duo, mcp, sub, ed, cmd, srch, oa, us, hd, fl, mdl, rc, rf, th>>

\* disconnectServer
MgDisconnectServer ==
    /\ \E sid \in ServerIds :
          mg' = [DisconnectRegistered(mg, sid) EXCEPT !.clients[sid] = NoClient]
    /\ UNCHANGED <<agentVars, providerVars, xcall, fsop, budget, duo, mcp, sub, ed, cmd, srch, oa, us, hd, fl, mdl, rc, rf, th>>

\* disconnectAll
MgDisconnectAll ==
    /\ mg' = [mg EXCEPT
                !.made = [c \in ClientIds |->
                            IF \E sid \in ServerIds : mg.clients[sid] = c
                            THEN clientDisconnect(mg.made[c]) ELSE mg.made[c]],
                !.clients = [s \in ServerIds |-> NoClient]]
    /\ UNCHANGED <<agentVars, providerVars, xcall, fsop, budget, duo, mcp, sub, ed, cmd, srch, oa, us, hd, fl, mdl, rc, rf, th>>

NextManager ==
    \/ MgConnectServer \/ MgConnected \/ MgConnectFailed \/ MgChildClose
    \/ MgDisconnectServer \/ MgDisconnectAll

(***************************************************************************)
(* The agent settings and the request parameters runAnthropicAgent builds  *)
(* from the settings its run was started with.                             *)
(***************************************************************************)
\* thinkingLevel: z.enum(["none", "low", "medium", "high", "xhigh"])
ThinkingLevels == {"none", "low", "medium", "high", "xhigh"}
\* some of maxTokens: z.number().int().min(256).max(128000)
MaxTokensValues == {256, 4096, 8192, 16384, 128000}
DEFAULT_SETTINGS == [maxTokens |-> 16384, thinkingLevel |-> "none"]

\* { low: 2048, medium: 8192, high: 16384 }
anthropicBudgetMap == [low |-> 2048, medium |-> 8192, high |-> 16384]
\* anthropicBudgetMap[thinkingLevel] ?? otherwise
BudgetOr(thinkingLevel, otherwise) ==
    IF thinkingLevel \in DOMAIN anthropicBudgetMap THEN anthropicBudgetMap[thinkingLevel]
    ELSE otherwise

NoThinking == [present |-> FALSE, type |-> "", budget_tokens |-> 0]
NoStreamParams == [built |-> FALSE, max_tokens |-> 0, thinking |-> NoThinking]

\* the streamParams of one step: max_tokens and, when thinking is enabled,
\* the thinking parameter
streamParams(settings) ==
    LET maxTokens == IF settings.maxTokens = 0 THEN DEFAULT_MAX_TOKENS ELSE settings.maxTokens
        thinkingLevel == IF settings.thinkingLevel = "" THEN "none" ELSE settings.thinkingLevel
        anthropicThinkingEnabled == thinkingLevel # "none" IN
    [built |-> TRUE,
     max_tokens |-> IF anthropicThinkingEnabled THEN maxTokens + BudgetOr(thinkingLevel, 0)
                    ELSE maxTokens,
     thinking |-> IF anthropicThinkingEnabled
                  THEN [present |-> TRUE, type |-> "enabled",
                        budget_tokens |-> BudgetOr(thinkingLevel, 8192)]
                  ELSE NoThinking]

IdleThinking ==
    [settings |-> DEFAULT_SETTINGS, running |-> FALSE, input |-> DEFAULT_SETTINGS,
     params |-> NoStreamParams]

\* settings:update: the fields of the payload replace the stored ones
ThUpdateSettings ==
    /\ \E payload \in SUBSET {"maxTokens", "thinkingLevel"},
          mt \in MaxTokensValues, tl \in ThinkingLevels :
          th' = [th EXCEPT !.settings =
                    [maxTokens |-> IF "maxTokens" \in payload THEN mt ELSE @.maxTokens,
                     thinkingLevel |-> IF "thinkingLevel" \in payload THEN tl
                                       ELSE @.thinkingLevel]]
    /\ UNCHANGED <<agentVars, providerVars, xcall, fsop, budget, duo, mcp, sub, ed, cmd, srch, oa, us, hd, fl, mdl, rc, rf, mg>>

\* message:send for a thread of an Anthropic model: the run gets the settings
\* of this moment
ThSend ==
    /\ ~th.running
    /\ th' = [th EXCEPT !.running = TRUE, !.input = th.settings, !.params = NoStreamParams]
    /\ UNCHANGED <<agentVars, providerVars, xcall, fsop, budget, duo, mcp, sub, ed, cmd, srch, oa, us, hd, fl, mdl, rc, rf, mg>>

\* one step of the loop of runAnthropicAgent: client.messages.stream(streamParams)
ThRequest ==
    /\ th.running
    /\ th' = [th EXCEPT !.params = streamParams(th.input)]
    /\ UNCHANGED <<agentVars, providerVars, xcall, fsop, budget, duo, mcp, sub, ed, cmd, srch, oa, us, hd, fl, mdl, rc, rf, mg>>

\* the run ends
ThEnd ==
    /\ th.running
    /\ th.params.built
    /\ th' = [th EXCEPT !.running = FALSE]
    /\ UNCHANGED <<agentVars, providerVars, xcall, fsop, budget, duo, mcp, sub, ed, cmd, srch, oa, us, hd, fl, mdl, rc, rf, mg>>

NextThinking == ThUpdateSettings \/ ThSend \/ ThRequest \/ ThEnd

(***************************************************************************)
(* Specifications.                                                         *)
(***************************************************************************)
\* no call of executeTool or of a file tool is looked at
NoProbe ==
    /\ xcall = IdleCall /\ fsop = IdleFsop /\ budget = IdleBudget /\ duo = IdleDuo
    /\ mcp = IdleMcp
    /\ sub = IdleSub
    /\ ed = IdleEdit
    /\ cmd = IdleCmd
    /\ srch = IdleSearch
    /\ oa = IdleOAuth
    /\ us = IdleUsage
    /\ hd = IdleSend
    /\ fl = IdleFile
    /\ mdl = IdleModels
    /\ rc = IdleRuns
    /\ rf = IdleRefresh
    /\ mg = IdleManager
    /\ th = IdleThinking

\* the agent run, with a provider that narrates every response
Init ==
    /\ InitAgent
    /\ answers = {<<"hello">>}
    /\ toolset = ToolNames
    /\ NoProbe
Next == NextAgent
Spec == Init /\ [][Next]_vars

\* the agent run with one sub-agent at a time, and a provider whose
\* responses carry any text
InitText ==
    /\ InitAgent
    /\ conc = 1
    /\ answers = StepTexts
    /\ toolset = ToolNames
    /\ NoProbe
SpecText == InitText /\ [][Next]_vars

AgentAtRest ==
    /\ InitAgent /\ variant = "anthropic" /\ conc = 0
    /\ answers = StepTexts /\ toolset = ToolNames

\* one call of executeTool
InitExec == AgentAtRest /\ NoProbe
SpecExec == InitExec /\ [][NextExec]_vars

\* one counted loop; every response arrives and every tool settles
InitBudget == AgentAtRest /\ NoProbe
SpecBudget == InitBudget /\ [][NextBudget]_vars /\ WF_vars(NextBudget)

\* one script run by both loops
InitDuo == AgentAtRest /\ NoProbe
SpecDuo == InitDuo /\ [][NextDuo]_vars

\* one call of a file tool
InitPath == AgentAtRest /\ NoProbe
SpecPath == InitPath /\ [][NextPath]_vars

\* one tool-provider client, from its construction on
InitMcp == AgentAtRest /\ NoProbe
SpecMcp == InitMcp /\ [][NextMcp]_vars

\* one sub-agent run of either type
InitSub == AgentAtRest /\ NoProbe
SpecSub == InitSub /\ [][NextSub]_vars

\* one file and two calls of editFile
InitEdit == AgentAtRest /\ NoProbe
SpecEdit == InitEdit /\ [][NextEdit]_vars

\* one run_command call
InitCmd == AgentAtRest /\ NoProbe
SpecCmd == InitCmd /\ [][NextCmd]_vars

\* one call of glob or grep
InitSearch == AgentAtRest /\ NoProbe
SpecSearch == InitSearch /\ [][NextSearch]_vars

\* the start of one run
InitOAuth == AgentAtRest /\ NoProbe
SpecOAuth == InitOAuth /\ [][NextOAuth]_vars

\* the token counters of one Anthropic run
InitUsage == AgentAtRest /\ NoProbe
SpecUsage == InitUsage /\ [][NextUsage]_vars

\* the handler of message:send around one run
InitSend == AgentAtRest /\ NoProbe
SpecSend == InitSend /\ [][NextSend]_vars

\* one path written and read back
InitFile == AgentAtRest /\ NoProbe
SpecFile == InitFile /\ [][NextFile]_vars

\* the model chosen for a thread title
InitModels == AgentAtRest /\ NoProbe
SpecModels == InitModels /\ [][NextModels]_vars

\* the runs of one thread
InitRuns == AgentAtRest /\ NoProbe
SpecRuns == InitRuns /\ [][NextRuns]_vars

\* concurrent credential resolutions of one provider
InitRefresh == AgentAtRest /\ NoProbe
SpecRefresh == InitRefresh /\ [][NextRefresh]_vars

\* McpManager and the clients of two server ids
InitManager == AgentAtRest /\ NoProbe
SpecManager == InitManager /\ [][NextManager]_vars

\* the thinking budget of the Anthropic request
InitThinking == AgentAtRest /\ NoProbe
SpecThinking == InitThinking /\ [][NextThinking]_vars

TypeOK ==
    /\ pc \in {"getCredential", "loop", "stream", "seq", "seqCmd", "seqCmdAborted",
               "cards", "launch", "batchWait", "collect", "done"}
    /\ status \in {"running", "idle", "cancelled", "error"}
    /\ (pc = "done") = (status # "running")

(***************************************************************************)
(* Properties of the agent loop.                                           *)
(***************************************************************************)
RECURSIVE FlatResults(_)
\* the tool results in the conversation, in the order they are sent
FlatResults(ms) ==
    IF ms = <<>> THEN <<>> ELSE Head(ms).results \o FlatResults(Tail(ms))
\* the tool-call ids of the step, as the assistant message carries them
IssuedIds ==
    IF Len(messages) > 0 /\ messages[1].role = "assistant" THEN messages[1].ids ELSE <<>>
ResultCount(id) ==
    Cardinality({k \in 1..Len(FlatResults(messages)) :
                    FlatResults(messages)[k].tool_use_id = id})
RunningTasks == {i \in DOMAIN tasks : Running(tasks[i])}
SpawnPos(i) == CHOOSE k \in 1..Len(spawnTasks) : spawnTasks[k] = i
BatchOf(i) == (SpawnPos(i) - 1) \div maxConcurrent

\* C1: when a request follows a step with tool calls, the conversation sent
\* with it holds exactly one tool result for every tool-call id of that
\* step, and no other tool result.
C1_OneResultPerCall ==
    (pc = "stream" /\ step > 0) =>
        /\ \A k \in 1..Len(IssuedIds) : ResultCount(IssuedIds[k]) = 1
        /\ Len(FlatResults(messages)) = Len(IssuedIds)
C1_Witness ==
    /\ pc = "stream" /\ step > 0
    /\ Len(IssuedIds) >= 2
    /\ \E i \in DOMAIN calls : IsSpawn(i)
    /\ \E i \in DOMAIN calls : ~IsSpawn(i)

\* C2: the tool results appended for a step are in the order of its tool
\* calls, each carrying the text its own call produced, whatever the mix of
\* ordinary and spawn_task calls and the order in which the tasks settled.
C2_ResultsInCallOrder ==
    (pc \in {"loop", "stream"} /\ step > 0) =>
        /\ Len(FlatResults(messages)) = Len(IssuedIds)
        /\ \A k \in 1..Len(IssuedIds) :
              /\ FlatResults(messages)[k].tool_use_id = IssuedIds[k]
              /\ FlatResults(messages)[k].content = IssuedIds[k]
C2_Witness ==
    /\ pc = "loop" /\ step > 0
    /\ Len(calls) >= 3
    /\ IsSpawn(1) /\ ~IsSpawn(2) /\ IsSpawn(3)
    /\ Len(FlatResults(messages)) = 3

\* C3: at every instant at most maxConcurrentTasks (3 when unset) sub-agent
\* loops have started and not yet settled.
C3_ConcurrencyBound == Cardinality(RunningTasks) <= maxConcurrent
C3_Witness ==
    /\ Cardinality(RunningTasks) = maxConcurrent
    /\ Len(spawnTasks) > maxConcurrent
    /\ maxConcurrent >= 2

\* C4: once the abort signal is raised, no onToolStart is invoked, no tool
\* execution begins (main loop or sub-agent) and no provider request is sent.
C4_NoStartAfterAbort ==
    [][aborted => \A x \in ev' : x.e \notin {"onToolStart", "exec", "request"}]_vars

\* C7: when the run is cancelled while a spawn_task sub-agent runs (before
\* its request, with the request in flight, or in a tool), the dispatch of
\* that spawn_task ends in the cancellation error, never in a text result.
C7_SubAgentCancelPropagates ==
    [][\A i \in DOMAIN tasks :
          (/\ aborted
           /\ i \in DOMAIN tasks'
           /\ tasks[i].st \in {"req", "cmd", "cmdAborted"}
           /\ Settled(tasks'[i]))
          => tasks'[i].st = "rejected"]_vars

\* C8: a run that was cancelled while in progress ends with the terminal
\* status "cancelled", never "error" and never as a normal completion.
C8_CancelledOutcome ==
    (pc = "done" /\ aborted /\ outcome.msg # <<"credential is not configured">>)
        => status = "cancelled"

\* C9: no task of a later batch has started before every task of the
\* earlier batches has settled.
C9_BatchBarrier ==
    \A i \in DOMAIN tasks : \A j \in DOMAIN tasks :
        (IsSpawn(i) /\ IsSpawn(j) /\ BatchOf(i) < BatchOf(j) /\ tasks[j].st # "none")
            => Settled(tasks[i])
C9_Witness ==
    \E i \in DOMAIN tasks : \E j \in DOMAIN tasks :
        /\ IsSpawn(i) /\ IsSpawn(j)
        /\ BatchOf(i) < BatchOf(j)
        /\ Running(tasks[j])
        /\ maxConcurrent >= 2

\* C10: the pending marker of every spawn_task call of the step is emitted
\* before any of them starts executing or gets its result emitted.
C10_CardsBeforeTasks ==
    \A i \in DOMAIN tasks :
        (IsSpawn(i) /\ (tasks[i].st # "none" \/ toolCards[i] = "done"))
            => \A j \in DOMAIN tasks : IsSpawn(j) => toolCards[j] # "none"
C10_Witness ==
    \E i \in DOMAIN tasks : \E j \in DOMAIN tasks :
        /\ IsSpawn(i) /\ IsSpawn(j)
        /\ Running(tasks[i])
        /\ tasks[j].st = "none" /\ toolCards[j] = "pending"

IsInside(root, segs) ==
    Len(segs) >= Len(root) /\ SubSeq(segs, 1, Len(root)) = root
C5_EscapeRejected ==
    (/\ fsop.phase = "done"
     /\ ~fsop.sameStrings
     /\ ~IsInside(fsop.root, PathResolve(fsop.root, fsop.target)))
        => /\ fsop.out = Throw(PathEscapeMsg)
           /\ fsop.touched = {}

(***************************************************************************)
(* Properties of the two loops.                                            *)
(***************************************************************************)
\* C11: fed the same step outcomes, the same settings and the same
\* cancellation timing, the Anthropic loop and the OpenAI loop invoke the
\* same callbacks in the same order, feed back the same tool results and
\* settle the same way with the same token totals.
C11_LoopsEquivalent ==
    duo.phase = "both" => duo.anthropic = duo.openai

(***************************************************************************)
(* Properties of the step budget.                                          *)
(***************************************************************************)
\* C12: a run sends at most maxToolSteps provider requests (25 when the
\* setting is unset), a sub-agent at most subAgentMaxToolSteps (15 when
\* unset), and the loop ends, even if every response contains tool calls.
C12_StepBudget ==
    /\ [](budget.requests <= BudgetOf(budget))
    /\ [](budget.setting = 0 =>
            budget.requests <= (IF budget.who = "main" THEN 25 ELSE 15))
    /\ <>(budget.pc = "done")
C12_Witness ==
    /\ budget.pc = "done"
    /\ budget.who = "main"
    /\ budget.setting = 0
    /\ budget.step = 25
    /\ budget.requests = 25

(***************************************************************************)
(* Properties of the texts of a run.                                       *)
(***************************************************************************)
\* C13: when the step budget is exhausted and the last step still contained
\* tool calls, the final text of the run is the synthesized "Reached maximum
\* tool steps" message.
C13_BudgetMessage ==
    (pc = "done" /\ outcome.kind = "return" /\ step >= maxToolSteps)
        => outcome.msg = MaxStepsMsg

\* C14: when the response of a step contains no tool calls the run ends at
\* that step: its final text is exactly the text of that step, no tool is
\* executed, no onToolStart is called and no further request is sent.
C14_NoToolCallsEndsRun ==
    [][/\ (pc = "stream" /\ pc' # "stream" /\ calls' = <<>> /\ outcome'.kind # "throw")
            => /\ pc' = "done"
               /\ outcome' = Return(stepText')
               /\ status' = "idle"
               /\ step' = step
               /\ toolCards' = <<>> /\ tasks' = <<>>
               /\ ev' = {}
       /\ pc = "done" => pc' = "done"]_vars
C14_Witness ==
    /\ pc = "done"
    /\ step = 0
    /\ calls = <<>>
    /\ messages = <<UserMsg>>
    /\ outcome = Return(<<"hello">>)

\* C15: the non-delegation tool calls of a step are executed strictly one at
\* a time in the order the model issued them: a call is started only when
\* every earlier one has ended, and never two of them are executing.
SeqCards == {i \in DOMAIN toolCards : ~IsSpawn(i)}
C15_SequentialInOrder ==
    /\ \A i, j \in SeqCards :
          (i < j /\ toolCards[j] # "none") => toolCards[i] = "done"
    /\ Cardinality({i \in SeqCards : toolCards[i] = "pending"}) <= 1
C15_Witness ==
    \E i, j \in SeqCards :
        /\ i < j
        /\ toolCards[i] = "done"
        /\ toolCards[j] = "pending"
        /\ pc = "seqCmd"

\* the main loop leaves the stream of a step whose response has tool calls
ToolsStep == pc = "stream" /\ pc' \notin {"stream", "done"}
OnTextEvents(es) == {x \in es : x.e = "onText"}
ToolEvents(es) == {x \in es : x.who = "main" /\ x.e \in {"onToolStart", "onToolEnd"}}

\* as stated: in a step with tool calls, whatever text was accumulated is
\* emitted through onText
C16_AnyTextEmitted ==
    [][(ToolsStep /\ stepText' # <<>>)
          => EvText("onText", stepText') \in ev']_vars

\* C16: in a step that contains tool calls and accumulated text that is not
\* only whitespace, that text is emitted through onText exactly once, and
\* before onToolStart or onToolEnd is called for any tool call of that step.
C16_TextBeforeTools ==
    [][/\ (ToolsStep /\ stepText' \notin {<<>>, <<" ">>})
            => /\ OnTextEvents(ev') = {EvText("onText", stepText')}
               /\ ToolEvents(ev') = {}
               /\ calls' # <<>>
               /\ \A i \in DOMAIN toolCards' : toolCards'[i] = "none"
       /\ ~ToolsStep => OnTextEvents(ev') = {}]_vars
C16_Witness ==
    /\ ev = {EvText("onText", <<"hello">>)}
    /\ stepText = <<"hello">>
    /\ calls # <<>>
    /\ \A i \in DOMAIN toolCards : toolCards[i] = "none"

\* C17: whenever the connection becomes Disconnected, by the exit of the
\* subprocess, by disconnect() or by a failed handshake, every request that
\* was pending at that moment is rejected and the tool catalogue is empty
\* afterwards.
C17_DisconnectRejectsAll ==
    [][(Writable(mcp) /\ ~Writable(mcp'))
          => /\ \A id \in mcp.pending : mcp'.reqs[id].state = "rejected"
             /\ mcp'.tools = {}]_vars

\* the timer of request id expires in this step
TimerStep(id) == mcp.reqs[id].timer /\ ~mcp'.reqs[id].timer
\* the subprocess, the connected flag, the catalogue and the place of connect()
ConnState(m) == <<m.process, m.child, m.connected, m.tools, m.hs>>

\* C18: each request has its own timeout; when it expires without a matching
\* response only the entry of that request is removed and only that request
\* fails, and every other request in flight keeps its entry and can still be
\* resolved by its own response.
C18_TimeoutIsolated ==
    /\ [](\A id \in mcp.pending :
            /\ mcp.reqs[id].timer
            /\ Writable(mcp)
            /\ processLine(mcp, [kind |-> "result", id |-> id]).reqs[id].state = "resolved")
    /\ [][\A id \in RpcIds :
            (TimerStep(id) /\ id \in mcp.pending)
                => /\ id \notin mcp'.pending
                   /\ mcp'.reqs[id].state = "rejected"
                   /\ mcp'.reqs[id].err = TimeoutErr
                   /\ \A j \in RpcIds \ {id} :
                         /\ mcp'.reqs[j] = mcp.reqs[j]
                         /\ j \in mcp.pending => j \in mcp'.pending]_vars
C18_Witness ==
    \E a, c \in RpcIds :
        /\ mcp.fired = a
        /\ mcp.reqs[a].state = "rejected" /\ mcp.reqs[a].err = TimeoutErr
        /\ a < c
        /\ c \in mcp.pending

\* as stated: the timeout of a request, whatever its method, leaves the
\* subprocess, the connected flag and the catalogue as they were
C19_TimeoutKeepsConnection ==
    [][\A id \in RpcIds :
          TimerStep(id) => ConnState(mcp') = ConnState(mcp)]_vars

\* C19: the timeout of a request sent for a caller, by tools/call or by
\* refreshTools, leaves the subprocess running, the connected flag as it was
\* and the catalogue unchanged; the timeout of a request of connect(),
\* initialize or its tools/list, makes connect() fail and disconnect.
C19_CallerTimeoutKeepsConnection ==
    [][\A id \in RpcIds :
          TimerStep(id) =>
              IF mcp.reqs[id].origin = "connect" /\ id \in mcp.pending
              THEN /\ mcp'.process = "null"
                   /\ mcp'.child = "killed"
                   /\ ~mcp'.connected
                   /\ mcp'.tools = {}
                   /\ mcp'.hs = "failed"
              ELSE ConnState(mcp') = ConnState(mcp)]_vars
C19_Witness ==
    \E id \in RpcIds :
        /\ mcp.fired = id
        /\ mcp.reqs[id].origin = "caller"
        /\ mcp.reqs[id].state = "rejected" /\ mcp.reqs[id].err = TimeoutErr
        /\ Writable(mcp) /\ mcp.connected /\ mcp.tools = ServerCatalogue

\* C20: a line settles a pending request only if it is a response whose id
\* is the id of that request, an error response rejecting it and any other
\* resolving it, and a request is settled at most once; a line that is
\* malformed, has no id or has an id with no pending entry changes neither
\* the pending table nor the state of the connection.
C20_LinesSettleById ==
    /\ [](\A id \in RpcIds : mcp.reqs[id].settles <= 1)
    /\ [][LET line == mcp'.rx IN
          /\ line # NoLine =>
                IF line.kind \in {"result", "error"} /\ line.id \in mcp.pending
                THEN /\ line.id \notin mcp'.pending
                     /\ mcp'.reqs[line.id].state =
                            (IF line.kind = "error" THEN "rejected" ELSE "resolved")
                     /\ \A j \in mcp.pending \ {line.id} :
                           j \in mcp'.pending /\ mcp'.reqs[j] = mcp.reqs[j]
                ELSE /\ mcp'.pending = mcp.pending
                     /\ mcp'.reqs = mcp.reqs
                     /\ ConnState(mcp') = ConnState(mcp)
          /\ \A id \in RpcIds :
                (mcp.reqs[id].state = "pending" /\ mcp'.reqs[id].state = "resolved")
                    => line = [kind |-> "result", id |-> id]
          /\ \A id \in RpcIds :
                (mcp.reqs[id].state = "pending" /\ mcp'.reqs[id].err = McpErr)
                    => line = [kind |-> "error", id |-> id]]_vars
C20_Witness ==
    \E a, c \in RpcIds :
        /\ mcp.reqs[a].err = TimeoutErr
        /\ mcp.rx = [kind |-> "result", id |-> c]
        /\ mcp.reqs[c].origin = "caller"
        /\ mcp.reqs[c].state = "resolved"
        /\ mcp.reqs[c].settles = 1

\* C21: in a sub-agent of type explore only list_files, read_file, glob and
\* grep are offered, and no write_file, edit_file or run_command call is
\* executed inside it, whatever tool calls the responses contain.
C21_ExploreReadOnly ==
    (sub.pc # "idle" /\ sub.type = "explore")
        => /\ sub.offered = {"list_files", "read_file", "glob", "grep"}
           /\ sub.ran \notin {"write_file", "edit_file", "runCommand"}

\* C22: no sub-agent starts a further sub-agent: spawn_task is in the
\* catalogue of neither sub-agent type, and a spawn_task call issued inside
\* a sub-agent starts no nested loop.
C22_NoNestedSubAgent ==
    /\ \A t \in SubAgentTypes : "spawn_task" \notin SubCatalogue(t = "explore")
    /\ sub.pc # "idle" => "spawn_task" \notin sub.offered
    /\ sub.nested = 0
    /\ sub.ran # "runSubAgent"
C22_Witness ==
    /\ sub.pc = "tool"
    /\ sub.pos = 2
    /\ sub.calls[1] = "spawn_task"
    /\ sub.last = Return(<<"Error: Sub-agent context not available.">>)
    /\ sub.nested = 0

\* the first call has returned, for an old_string that is not empty
EditedOnce == ed.phase \in {"once", "twice"} /\ ed.oldString # <<>>
\* the occurrences of old_string in the file before the first call
Occurrences == CountFrom(ed.file, ed.oldString, 1)
\* the file with the occurrences of old_string replaced by new_string
Replaced == Join(Split(ed.file, ed.oldString), ed.newString)

\* C23: editFile on a file that contains oldString k times: k = 0 is the
\* not-found error and k > 1 without replaceAll the ambiguous-match error
\* reporting k, the file unchanged in both; k = 1, or replaceAll, replaces
\* the occurrence(s) with newString and reports 1, or k with replaceAll.
C23_EditByCount ==
    (EditedOnce /\ ed.oldString # ed.newString) =>
        LET k == Occurrences IN
        IF k = 0 THEN ed.first = EditResult("notFound", 0, ed.file)
        ELSE IF k > 1 /\ ~ed.replaceAll THEN ed.first = EditResult("ambiguous", k, ed.file)
        ELSE ed.first = EditResult("ok", IF ed.replaceAll THEN k ELSE 1, Replaced)

\* the second call has returned after a first call that replaced the one
\* occurrence of old_string
EditedSingleTwice ==
    /\ ed.phase = "twice"
    /\ ed.oldString # <<>>
    /\ ed.first.kind = "ok"
    /\ Occurrences = 1

\* as stated: the second call fails with the not-found error, whatever
\* oldString and newString are
C24_SecondEditNotFound ==
    EditedSingleTwice => ed.second = EditResult("notFound", 0, ed.first.content)

\* new_string is not empty, has no "$" and no character of old_string
FreshText ==
    /\ ed.newString # <<>>
    /\ \A k \in 1..Len(ed.newString) :
          /\ ed.newString[k] # "$"
          /\ \A j \in 1..Len(ed.oldString) : ed.newString[k] # ed.oldString[j]

\* C24: after a successful single-occurrence editFile the same call again
\* fails with the not-found error, the file unchanged, exactly when the file
\* the first call has written no longer contains oldString; it does so
\* whenever newString is not empty, has no "$" and shares no character with
\* oldString.
C24_SecondEditNotFoundIfGone ==
    EditedSingleTwice =>
        /\ IndexOf(ed.first.content, ed.oldString, 1) = 0
              <=> ed.second = EditResult("notFound", 0, ed.first.content)
        /\ FreshText => ed.second = EditResult("notFound", 0, ed.first.content)
C24_Witness ==
    /\ EditedSingleTwice
    /\ FreshText
    /\ ~ed.replaceAll
    /\ ed.first.content # ed.file
    /\ ed.second = EditResult("notFound", 0, ed.first.content)

\* the SIGTERM the child has received
Terms == {k \in 1..Len(cmd.signals) : cmd.signals[k].sig = "SIGTERM"}

\* C25: when the timeout of a command (90 s) expires, or the signal of the
\* run is raised, while the command is running, the child receives SIGTERM
\* at that moment and SIGKILL 2 s later if it has not exited, and the tool
\* outcome is an error result containing "timed out", respectively the
\* cancellation error; the timeout expires on its own clock, cancelled or
\* not.
C25_TermThenKill ==
    /\ cmd.phase = "running" => cmd.now <= DefaultTimeoutMs
    /\ cmd.out = Throw(TimedOutMsg)
          => /\ cmd.signals # <<>> /\ cmd.signals[1] = Signal("SIGTERM", DefaultTimeoutMs)
             /\ cmd.tool = Return(<<"Tool error: ", "Command timed out">>)
    /\ (cmd.out = Throw(RunCancelledMsg) /\ cmd.child # "none")
          => /\ cmd.signals # <<>> /\ cmd.signals[1].sig = "SIGTERM"
             /\ cmd.signals[1].at <= DefaultTimeoutMs
             /\ cmd.tool = Throw(RunCancelledMsg)
    /\ \A k \in Terms :
          /\ cmd.now > cmd.signals[k].at + KillGraceMs => cmd.child = "exited"
          /\ (cmd.now = cmd.signals[k].at + KillGraceMs /\ cmd.child = "running")
                => cmd.signals[k].at + KillGraceMs \in cmd.kills
    /\ \A k \in 1..Len(cmd.signals) :
          cmd.signals[k].sig = "SIGKILL"
              => k = 2 /\ cmd.signals[k].at = cmd.signals[1].at + KillGraceMs
C25_Witness ==
    /\ ~cmd.aborted
    /\ cmd.signals = <<Signal("SIGTERM", DefaultTimeoutMs),
                       Signal("SIGKILL", DefaultTimeoutMs + KillGraceMs)>>
    /\ cmd.tool = Return(<<"Tool error: ", "Command timed out">>)

\* C26: globFiles returns at most 500 matches and grepFiles at most 200, and
\* whenever more entries match than the cap the result has truncated = true
\* and the text of the tool ends with the "... (truncated at" line: no match
\* is dropped without the response saying so.
C26_CapSaysTruncated ==
    /\ srch.kept <= CapOf(srch.tool)
    /\ srch.tool = "glob" => srch.kept <= 500
    /\ srch.tool = "grep" => srch.kept <= 200
    /\ srch.phase = "done"
          => /\ srch.total > CapOf(srch.tool)
                   => srch.truncated /\ srch.text.last = "truncated"
             /\ srch.kept < srch.total
                   => srch.truncated /\ srch.text.last = "truncated"
             /\ ~srch.truncated => srch.kept = srch.total
C26_Witness ==
    /\ srch.phase = "done"
    /\ srch.tool = "grep"
    /\ srch.total = 201
    /\ srch.kept = 200
    /\ srch.truncated
    /\ srch.text = [lines |-> 201, last |-> "truncated"]

\* getValidOAuthToken has returned or thrown, for a stored OAuth record
TokenResolved == oa.cred = "oauth" /\ oa.phase \in {"ready", "loop", "ended"}

\* C27: OAuth credential resolution returns the stored access token
\* unchanged if and only if its expiry is at least 30 s after the current
\* time; otherwise it performs a refresh_token grant, stores the refreshed
\* record and returns the new access token: a stored token that has expired
\* or expires within 30 s is never returned.
C27_RefreshWithinMargin ==
    /\ oa.token = "stored access"
          => oa.cred = "oauth" /\ oa.stored.expires >= oa.now + 30000
    /\ TokenResolved =>
          IF oa.stored.expires >= oa.now + 30000
          THEN /\ oa.token = oa.stored.access
               /\ oa.refresh = "none"
               /\ oa.store = oa.stored
          ELSE \/ /\ oa.refresh = "ok"
                  /\ oa.token = "new access"
                  /\ oa.store.access = oa.token
                  /\ oa.store # oa.stored
               \/ /\ oa.refresh = "failed"
                  /\ oa.token = ""
                  /\ oa.store = oa.stored
C27_Witness ==
    /\ oa.phase = "ready"
    /\ oa.cred = "oauth"
    /\ oa.stored.expires = oa.now + 29999
    /\ oa.refresh = "ok"
    /\ oa.token = "new access"
    /\ oa.store.access = "new access"

\* the run has no provider, no credential, an invalid OAuth credential or a
\* refresh that failed
NoCredentialForRun ==
    /\ oa.phase # "idle"
    /\ \/ oa.provider = "none"
       \/ oa.cred \in {"none", "invalidOAuth"}
       \/ oa.refresh = "failed"

\* C28: if no provider is enabled, no credential is stored for the enabled
\* provider, the stored OAuth credential is invalid or the refresh fails,
\* the run ends without a provider request and without a tool execution;
\* a refresh failure fails the run.
C28_NoRequestWithoutCredential ==
    /\ NoCredentialForRun
          => /\ oa.phase = "ended"
             /\ oa.requests = 0
             /\ oa.tools = 0
    /\ oa.refresh = "failed" => oa.out = Throw(RefreshFailedMsg)
    /\ (oa.phase # "idle" /\ oa.cred = "invalidOAuth") => oa.out = Throw(InvalidOAuthMsg)
C28_Witness ==
    /\ oa.phase = "ended"
    /\ oa.refresh = "failed"
    /\ oa.out = Throw(RefreshFailedMsg)
    /\ oa.requests = 0
    /\ oa.tools = 0

\* C29: within one Anthropic step in which message_start and message_delta
\* events report usage, the output-token count of the step is the sum of
\* the output_tokens values of the message_start event and of the
\* message_delta events of that step.
C29_OutputTokensSummed ==
    (us.phase = "streaming" /\ us.deltas >= 1)
        => us.stepOutputTokens = us.startOut + us.deltaOut

\* the messages of a thread that are flagged isError
ErrorMessages(thread) == {i \in DOMAIN thread : thread[i].isError}

\* C30: a run that fails stores and emits exactly one last assistant message
\* ("Agent failed: ...", flagged isError) and exactly one terminal status
\* event, "cancelled" if the run was cancelled and "error" otherwise, and
\* every assistant message stored earlier in the run stays in the thread
\* unchanged.
C30_FailedRunEnds ==
    /\ [](hd.outcome.kind = "throw"
            => /\ ErrorMessages(hd.thread) = {Len(hd.thread)}
               /\ hd.thread[Len(hd.thread)].role = "assistant"
               /\ hd.thread[Len(hd.thread)].content = <<"Agent failed: ">> \o hd.outcome.msg
               /\ hd.emitted = Len(hd.thread)
               /\ hd.statuses = <<IF hd.aborted THEN "cancelled" ELSE "error">>)
    /\ [][\A i \in DOMAIN hd.thread :
            hd.thread[i].role = "assistant"
                => i \in DOMAIN hd'.thread /\ hd'.thread[i] = hd.thread[i]]_vars

\* the path of the probe lies inside the project root
InsideRoot ==
    LET path == PathResolve(fl.root, fl.target) IN
    Len(path) > Len(fl.root) /\ SubSeq(path, 1, Len(fl.root)) = fl.root
\* the content of the last write comes back from the read
ReadBack ==
    /\ fl.wrote = Return(<<"ok">>)
    /\ fl.read = Return(fl.content.units)
    /\ fl.readPad = fl.content.pad
\* no surrogate without its partner
RECURSIVE WellFormed(_)
WellFormed(units) ==
    IF units = <<>> THEN TRUE
    ELSE IF Head(units) = "a" THEN WellFormed(Tail(units))
    ELSE /\ Head(units) = "hi" /\ Len(units) >= 2 /\ units[2] = "lo"
         /\ WellFormed(Tail(Tail(units)))
\* before the first write the path is no directory and none of the
\* directories it needs is a file
CanHoldFile ==
    LET path == PathResolve(fl.root, fl.target) IN
    /\ ~IsDir(fl.layout, path)
    /\ \A q \in Prefixes(Dirname(path)) : ~IsFile(fl.layout, q)

\* C31 as stated: for every relative path inside the project root and every
\* content of at most 300,000 bytes, writeTextFile followed by readTextFile
\* of the same path returns exactly that content, also after an earlier
\* write to the path.
C31_WriteReadRoundTrip ==
    (fl.phase = "read" /\ InsideRoot /\ ByteLength(fl.content) <= 300000) => ReadBack
\* C31: the same, for a content without unpaired surrogates and a path
\* that is not a directory and has no file among its parent directories.
C31_RoundTripOfText ==
    (/\ fl.phase = "read" /\ InsideRoot /\ ByteLength(fl.content) <= 300000
     /\ WellFormed(fl.content.units) /\ CanHoldFile) => ReadBack
C31_Witness ==
    /\ fl.phase = "read"
    /\ fl.writes = 2
    /\ InsideRoot
    /\ Dirname(PathResolve(fl.root, fl.target)) \notin DOMAIN fl.layout
    /\ fl.content.units = <<"hi", "lo">>
    /\ ReadBack

\* the model id has been chosen
ModelChosen == mdl.phase \in {"chosen", "resolved"}
\* the id returned belongs to an authorized provider
OfAuthorizedProvider ==
    (ModelChosen /\ mdl.modelId # Null)
        => \E i \in DOMAIN ALL_MODELS :
              ALL_MODELS[i].id = mdl.modelId /\ ALL_MODELS[i].provider \in mdl.authorized

C33_OneRunPerThread == Cardinality(rc.running) <= 1

\* C34: runControllers maps the thread to the controller of every run that
\* is in progress and was not cancelled, and the cleanup of a run that
\* finishes never removes the controller registered by another run.
C34_ControllerOfRun ==
    \A run \in rc.running : run \notin rc.aborted => rc.registered = run

\* the command has settled by the close or the error event of the child
SettledByChild ==
    cmd.phase = "settled" /\ cmd.out \in {Return(<<"stdout">>), Throw(<<"spawn ENOENT">>)}

\* C36: the promise of runCommand settles once: the first of close, spawn
\* error, timeout and abort decides the outcome, no later event changes it,
\* and after a settlement by close or error the timeout and the abort path
\* send no signal and arm no forced kill.
C36_SettlesOnce ==
    [][/\ (cmd.phase = "running" /\ cmd'.phase = "settled")
            => \/ cmd'.out = Throw(TimedOutMsg) /\ cmd.timeout = cmd.now
               \/ cmd'.out = Throw(RunCancelledMsg) /\ ~cmd.aborted /\ cmd'.aborted
               \/ /\ cmd'.out \in {Return(<<"stdout">>), Throw(<<"spawn ENOENT">>)}
                  /\ cmd.child # "exited" /\ cmd'.child = "exited"
       /\ cmd.phase = "settled"
            => cmd'.phase = "settled" /\ cmd'.out = cmd.out /\ cmd'.tool = cmd.tool
       /\ SettledByChild
            => cmd'.signals = cmd.signals /\ cmd'.kills = {} /\ cmd'.timeout = NoDeadline]_vars
C36_Witness ==
    /\ cmd.phase = "settled"
    /\ cmd.out = Throw(TimedOutMsg)
    /\ cmd.child = "exited"
    /\ cmd.aborted

\* C35: editFile terminates, with a result or an error, for every file
\* content, oldString, newString and replaceAll flag, the empty oldString of
\* a call without old_string included: no call stays in the counting loop.
C35_EditTerminates ==
    /\ ed.phase # "hung"
    /\ ed.first.kind # "hang"
    /\ ed.second.kind # "hang"

\* every resolution has ended
AllResolved == \A i \in Resolvers : rf.res[i].pc \in {"done", "failed"}

\* C37: a stored refresh token is posted to the token endpoint at most once,
\* also by resolutions that run at the same time, and the record left in
\* the credential store is the one returned by the last refresh issued.
C37_RefreshTokenUsedOnce ==
    /\ \A j \in DOMAIN rf.submitted : \A k \in DOMAIN rf.submitted :
          rf.submitted[j].token = rf.submitted[k].token => j = k
    /\ (AllResolved /\ rf.minted > 0 /\ rf.res[rf.submitted[Len(rf.submitted)].by].pc = "done")
          => rf.store = rf.lastIssued

\* C38: when the run has reached its terminal status (idle, error or
\* cancelled), no tool message that it created is still pending: every
\* onToolStart has been followed by its onToolEnd, also for the tools and
\* the sub-agent tasks in flight when the run was cancelled or failed.
C38_NoPendingCardAtEnd ==
    pc = "done" => \A i \in DOMAIN toolCards : toolCards[i] # "pending"

\* the clients whose subprocess is alive
LiveClients == {c \in ClientIds : mg.made[c].proc = "alive"}
\* no connectServer call is waiting for its client to connect
NoConnectInFlight == \A c \in ClientIds : mg.made[c].st # "connecting"

\* C39: McpManager has at most one live subprocess per server id: once the
\* connectServer calls have returned, overlapping ones included, every
\* subprocess that is alive belongs to the client registered under its
\* server id, so that disconnectAll leaves no subprocess running.
C39_OneLiveProcessPerServer ==
    NoConnectInFlight
        => \A c \in LiveClients : mg.clients[mg.made[c].sid] = c

\* C40: a request built with a thinking level other than "none" carries a
\* thinking budget and its max_tokens is the configured maxTokens plus that
\* budget_tokens; a request built with "none" carries no thinking parameter
\* and its max_tokens is maxTokens.
C40_BudgetOnTopOfMaxTokens ==
    th.params.built =>
        IF th.input.thinkingLevel # "none"
        THEN /\ th.params.thinking.present
             /\ th.params.max_tokens = th.input.maxTokens + th.params.thinking.budget_tokens
        ELSE /\ ~th.params.thinking.present
             /\ th.params.max_tokens = th.input.maxTokens

====
